---------------------------- MODULE Spec2Model ----------------------------
(***************************************************************************)
(* Model of the profusion load-testing core.                               *)
(*                                                                         *)
(*   SpecMeasurer  MetricMeasurer (profusion/src/measurer.rs) recording    *)
(*                 into a TestAggregate (src/aggregate/test_aggregate.rs)  *)
(*   Spec          TimelineAggregateBuilder / TimelineAggregate            *)
(*                 (profusion/src/aggregate/timeline) over the storages    *)
(*                 of src/aggregate/storage and StartTime::window          *)
(*                                                                         *)
(* Time is the tokio clock in nanoseconds since the settings' epoch.       *)
(***************************************************************************)
EXTENDS Integers, Sequences, FiniteSets, Bags, TLC

VARIABLES
    now,        \* tokio clock: nanoseconds elapsed since the epoch
    \* ---- MetricMeasurer<TestAggregate> ----
    timeout,    \* MetricMeasurer.timeout : Option<Duration>
    values,     \* MetricMeasurer.aggregate = TestAggregate.values
    pc,         \* "idle", or "awaiting": try_measure suspended at line 60
    call,       \* the arguments of the call in flight (or of the last call)
    start,      \* local `start` of try_measure
    result,     \* what the last finished call returned
    completed,  \* number of calls that ran to completion
    \* ---- TimelineAggregateBuilder / TimelineAggregate ----
    settings,   \* AggregateSettings: [window, scale], shared by all aggregates
    proto,      \* TimelineAggregateBuilder.storage
    builderAlive, \* the builder has not been dropped
    users,      \* the value of the shared Counter (Arc<AtomicUsize>)
    alive,      \* per aggregate: "unbuilt", "live" or "gone"
    aggs,       \* per aggregate: [timeline, storage, total]
    apc,        \* per aggregate: the add_entry call between lines 125 and 126
    hist,       \* per aggregate: the add_entry calls made on it, with the
                \* bucket key window() returned and the counter value read
    pure,       \* per aggregate: no other aggregate was merged into it
    flushed,    \* what the last flush() returned
    entries,    \* number of add_entry calls made
    \* ---- AggregateStorage values and StartTime, used on their own ----
    stores,     \* per storage value: the storage, or "moved"
    bucket,     \* the last StartTime::window call: [size, elapsed, result]
    \* ---- AggregateScale, limiters, RealtimeReport, step futures ----
    conv,       \* the last AggregateScale conversion: [scale, of, to, back]
    limiter,    \* the limiter chain in use
    applied,    \* the last Limiter::apply call: [status, at, limit]
    proc,       \* the Limit::process future: [limit, pc, started, ...]
    counters,   \* the atomics shared by the clones of a Counter, by name
    origin,     \* the value the counters were constructed with
    threads,    \* per thread: the call in flight and the calls completed
    seq,        \* the SequenceFuture: [state, events, polls, result]
    \* ---- Runner, the driver loop, AggregateEventProcessor ----
    runner,     \* the Runner clones: their events, the reporter, the runs
    driver,     \* per virtual user: where it is in the driver loop
    processor   \* the AggregateEventProcessors: id -> [max_latency, ...]

measurerVars == <<timeout, values, pc, call, start, result, completed>>
timelineVars == <<settings, proto, builderAlive, users, alive, aggs, apc,
                  hist, pure, flushed, entries>>
libVars == <<stores, bucket>>
scaleVars == <<conv>>
limiterVars == <<limiter, applied>>
processVars == <<proc>>
reportVars == <<counters, origin, threads>>
sequenceVars == <<seq>>
runnerVars == <<runner>>
driverVars == <<driver>>
processorVars == <<processor>>
execVars == <<scaleVars, limiterVars, processVars, reportVars, sequenceVars,
              runnerVars, driverVars, processorVars>>
vars == <<now, measurerVars, timelineVars, libVars, execVars>>

(***************************************************************************)
(* Bounds of the model.                                                    *)
(***************************************************************************)
MaxTime == 3          \* the clock stops here
MaxCalls == 2         \* calls made on one measurer
MaxElapsed == 2       \* the clock of the timeline stops here
MaxEntries == 2       \* add_entry calls, over all aggregates

Last(s) == s[Len(s)]

(***************************************************************************)
(* Option<T>                                                               *)
(***************************************************************************)
None == [some |-> FALSE]
Some(x) == [some |-> TRUE, v |-> x]

(***************************************************************************)
(* Result<T, E> and MetricRecordError (profusion/src/metric/error.rs)      *)
(***************************************************************************)
Ok(x) == [ok |-> TRUE, v |-> x]
Err(e) == [ok |-> FALSE, e |-> e]
Timeout(d) == [kind |-> "Timeout", d |-> d]
Dynamic(e) == [kind |-> "Dynamic", source |-> e]
NoResult == [ok |-> FALSE, e |-> [kind |-> "none"]]   \* nothing returned
Unit == [ok |-> TRUE, v |-> "()"]

\* Result::map_err(|e| MetricRecordError::Dynamic(Box::new(e)))
MapErrDynamic(r) == IF r.ok THEN r ELSE Err(Dynamic(r.e))

(***************************************************************************)
(* Inputs of the measurer.                                                 *)
(***************************************************************************)
TestMetric == {"MetricOne", "MetricTwo"}
Timeouts == {None, Some(2)}
Needs == {0, 1, 4}                 \* time an action takes to complete
Outputs == {"a", "b"}              \* what an action returns
ActionErrors == {"TimedOut", "Other"}   \* io::ErrorKind of a failing action
Latencies == {1}                   \* latencies passed to add_measurement

(***************************************************************************)
(* TestAggregate (src/aggregate/test_aggregate.rs)                         *)
(***************************************************************************)
\* TestAggregate::add_entry: values.push((metric, elapsed, error.is_some()))
TestAddEntry(vals, metric, elapsed, error) ==
    Append(vals, [metric |-> metric, latency |-> elapsed, error |-> error.some])

(***************************************************************************)
(* MetricMeasurer                                                          *)
(***************************************************************************)
\* The action future is ready once it has run for the time it needs.
ActionReady(c, elapsed) == elapsed >= c.need

\* tokio::time::timeout(max_duration, action) has resolved: it polls the
\* action first and the deadline only when the action is still pending.
Resolved(t, c, elapsed) ==
    ActionReady(c, elapsed) \/ (t.some /\ elapsed >= t.v)

\* Mutant of execute_with_timeout: the deadline is looked at before the
\* action, so an action that is ready at a late poll is reported as timed out.
execute_with_timeout_DeadlineFirst(t, c, elapsed) ==
    IF t.some /\ elapsed >= t.v
    THEN Err(Timeout(t.v))
    ELSE MapErrDynamic(c.outcome)

\* MetricMeasurer::execute_with_timeout, at the poll that resolves it.
execute_with_timeout(t, c, elapsed) ==
    IF t.some
    THEN IF ActionReady(c, elapsed)
         THEN MapErrDynamic(c.outcome)
         ELSE Err(Timeout(t.v))
    ELSE MapErrDynamic(c.outcome)

\* Mutant of AsRefErr: the error is never handed to the aggregate.
AsRefErr_AlwaysNone(r) == None

\* result.as_ref().err()
AsRefErr(r) == IF r.ok THEN None ELSE Some(r.e)

\* Mutant of RecordOutcome: a failed call returns before it records (`?`).
RecordOutcome_OnlyOnSuccess(vals, metric, elapsed, r) ==
    IF r.ok THEN TestAddEntry(vals, metric, elapsed, None) ELSE vals

\* try_measure, lines 62-63:
\* self.aggregate.add_entry(metric, start.elapsed(), result.as_ref().err())
RecordOutcome(vals, metric, elapsed, r) ==
    TestAddEntry(vals, metric, elapsed, AsRefErr(r))

\* try_measure from the poll that resolves execute_with_timeout to its
\* return (lines 60-65), `elapsed` after `start`.
Finish(c, elapsed) ==
    LET r == execute_with_timeout(timeout, c, elapsed)
    IN  /\ values' = RecordOutcome(values, c.metric, elapsed, r)
        /\ result' = r
        /\ pc' = "idle"
        /\ completed' = completed + 1

\* MetricMeasurer::try_measure, first poll: an action that is ready at once
\* runs to the return without suspending, any other suspends at line 60.
TryMeasureStart(kind, metric, need, outcome) ==
    /\ pc = "idle"
    /\ completed < MaxCalls
    /\ call' = [kind |-> kind, metric |-> metric, need |-> need,
                outcome |-> outcome]
    /\ start' = now
    /\ IF Resolved(timeout, call', 0)
       THEN Finish(call', 0)
       ELSE /\ pc' = "awaiting"
            /\ UNCHANGED <<values, result, completed>>
    /\ UNCHANGED <<timelineVars, libVars, execVars, now, timeout>>

\* What the action of a try_measure call returns: Ok(output) or Err(error).
TryOutcomes == {Ok(v) : v \in Outputs} \cup {Err(e) : e \in ActionErrors}

\* What the wrapped action of a measure call returns: Ok(output).
MeasureOutcomes == {Ok(v) : v \in Outputs}

\* MetricMeasurer::try_measure(metric, action)
try_measure ==
    \E metric \in TestMetric, need \in Needs, outcome \in TryOutcomes :
        TryMeasureStart("try_measure", metric, need, outcome)

\* MetricMeasurer::measure(metric, action): try_measure of
\* async { Ok::<_, Infallible>(action.await) }
measure ==
    \E metric \in TestMetric, need \in Needs, outcome \in MeasureOutcomes :
        TryMeasureStart("measure", metric, need, outcome)

\* A later poll of try_measure, once the action or the deadline is due.
TryMeasureResume ==
    /\ pc = "awaiting"
    /\ Resolved(timeout, call, now - start)
    /\ Finish(call, now - start)
    /\ UNCHANGED <<timelineVars, libVars, execVars, now, timeout, call, start>>

\* Mutant of DropFuture: the dropped call records the time elapsed so far.
DropFuture_Records ==
    /\ pc = "awaiting"
    /\ pc' = "idle"
    /\ result' = NoResult
    /\ values' = TestAddEntry(values, call.metric, now - start, None)
    /\ UNCHANGED <<timelineVars, libVars, execVars, now, timeout, call, start, completed>>

\* The future of measure / try_measure is dropped while it is suspended.
DropFuture ==
    /\ pc = "awaiting"
    /\ pc' = "idle"
    /\ result' = NoResult
    /\ UNCHANGED <<timelineVars, libVars, execVars, now, timeout, values, call, start, completed>>

\* MetricMeasurer::add_measurement(metric, latency, error)
add_measurement ==
    /\ pc = "idle"
    /\ completed < MaxCalls
    /\ \E metric \in TestMetric, latency \in Latencies,
          error \in {None, Some(Timeout(2))} :
           /\ values' = TestAddEntry(values, metric, latency, error)
           /\ call' = [kind |-> "add_measurement", metric |-> metric,
                       need |-> 0, outcome |-> Unit]
    /\ result' = Unit
    /\ completed' = completed + 1
    /\ UNCHANGED <<timelineVars, libVars, execVars, now, timeout, pc, start>>

\* tokio's clock advances.
Tick ==
    /\ now < MaxTime
    /\ now' = now + 1

MeasurerTick == Tick /\ UNCHANGED <<measurerVars, timelineVars, libVars, execVars>>

\* No scale, limiter, report or step future is used on its own.
ScaleIdle == conv = None
LimiterIdle == limiter = None /\ applied = None
ProcessIdle == proc = None
ReportIdle == counters = None /\ origin = None /\ threads = <<>>
SequenceIdle == seq = None
RunnerIdle == runner = None
DriverIdle == driver = None
ProcessorIdle == processor = None

ExecIdle ==
    /\ ScaleIdle
    /\ LimiterIdle
    /\ ProcessIdle
    /\ ReportIdle
    /\ SequenceIdle
    /\ RunnerIdle
    /\ DriverIdle
    /\ ProcessorIdle

\* No storage and no StartTime is used on its own.
LibIdle ==
    /\ stores = <<>>
    /\ bucket = None
    /\ ExecIdle

\* The timeline is not used by the measurer's specification.
TimelineIdle ==
    /\ settings = [window |-> 0, scale |-> "Microseconds"]
    /\ proto = [kind |-> "none"]
    /\ builderAlive = FALSE
    /\ users = 0
    /\ alive = <<>>
    /\ aggs = <<>>
    /\ apc = <<>>
    /\ hist = <<>>
    /\ pure = <<>>
    /\ flushed = None
    /\ entries = 0

\* MetricMeasurer::new / with_timeout over TestAggregateBuilder::build()
MeasurerInit ==
    /\ now = 0
    /\ timeout \in Timeouts
    /\ values = <<>>
    /\ pc = "idle"
    /\ call = [kind |-> "none", metric |-> "MetricOne", need |-> 0,
               outcome |-> Ok("a")]
    /\ start = 0
    /\ result = NoResult
    /\ completed = 0
    /\ TimelineIdle
    /\ LibIdle

MeasurerNext ==
    \/ measure
    \/ try_measure
    \/ TryMeasureResume
    \/ DropFuture
    \/ add_measurement
    \/ MeasurerTick

SpecMeasurer == MeasurerInit /\ [][MeasurerNext]_vars

(***************************************************************************)
(* Histograms and aggregate storages (src/aggregate/storage).              *)
(* A histogram is its configuration, the bag of the values recorded in it, *)
(* each kept as the lowest value of its sub-bucket, and the largest value  *)
(* it has seen (max_value, which clear() keeps), as max() reports it.      *)
(* `sigfig` is the number of significant figures; `limit` is the highest   *)
(* value given to Histogram::new_with_max (auto-resize disabled), None for *)
(* Histogram::new (auto-resizing).                                         *)
(***************************************************************************)
ReportMetric == {"One", "Two"}

RECURSIVE Pow2AtLeast(_, _)
\* The smallest p * 2^k that is at least n.
Pow2AtLeast(p, n) == IF p >= n THEN p ELSE Pow2AtLeast(2 * p, n)

\* Histogram: the sub-buckets of a bucket, the power of two that holds
\* 2 * 10^sigfig values at unit resolution.
SubBucketCount(sigfig) == Pow2AtLeast(1, 2 * 10^sigfig)

\* Histogram::new_with_max(high, sigfig): the buckets cover every value below
\* the first SubBucketCount * 2^k above `high`; auto-resize is disabled.
SmallestUntrackable(sigfig, high) ==
    Pow2AtLeast(SubBucketCount(sigfig), high + 1)

\* Histogram::new(sigfig): new_with_bounds(1, 2, sigfig), auto-resizing
HistNew(sigfig) ==
    IF sigfig > 5 THEN Err("SigFigExceedsMax")
    ELSE Ok([sigfig |-> sigfig, limit |-> None,
             sub_bucket_count |-> SubBucketCount(sigfig),
             untrackable |-> None, counts |-> EmptyBag, max |-> 0])

\* Histogram::new_with_max(high, sigfig): new_with_bounds(1, high, sigfig)
HistNewWithMax(high, sigfig) ==
    IF high < 2 THEN Err("HighLessThanTwiceLow")
    ELSE IF sigfig > 5 THEN Err("SigFigExceedsMax")
    ELSE Ok([sigfig |-> sigfig, limit |-> Some(high),
             sub_bucket_count |-> SubBucketCount(sigfig),
             untrackable |-> Some(SmallestUntrackable(sigfig, high)),
             counts |-> EmptyBag, max |-> 0])

\* The width of the sub-bucket of v in the histogram h: the sub-buckets of
\* the k-th bucket are 2^k wide.
SubBucketWidth(h, v) == Pow2AtLeast(1, v \div h.sub_bucket_count + 1)

\* Histogram::lowest_equivalent: the smallest value that shares the
\* sub-bucket of v
LowestEquivalent(h, v) ==
    LET width == SubBucketWidth(h, v)
    IN  (v \div width) * width

\* Histogram::highest_equivalent: the largest value that shares the
\* sub-bucket of v
HighestEquivalent(h, v) ==
    LET width == SubBucketWidth(h, v)
    IN  (v \div width) * width + width - 1

\* Histogram::len
HistLen(h) == BagCardinality(h.counts)

\* Histogram::max: 0 for a histogram that has seen no value, else the
\* highest value equivalent to the largest one seen
HistMax(h) == h.max

\* Histogram::clear: the counts are zeroed, the statistics are kept
\* (Histogram::reset would drop them too).
HistClear(h) == [h EXCEPT !.counts = EmptyBag]

\* The buckets of the histogram cover the value v; an auto-resizing
\* histogram grows to cover it.
Covers(h, v) == h.untrackable.some => v < h.untrackable.v

\* Mutant of HistRecord: a value out of range is recorded all the same.
HistRecord_NeverFails(h, v) ==
    LET highest == HighestEquivalent(h, v)
    IN  [h EXCEPT !.counts = @ (+) SetToBag({LowestEquivalent(h, v)}),
                  !.max = IF highest > @ THEN highest ELSE @]

\* Histogram::record: Err(ValueOutOfRangeResizeDisabled) for a value the
\* buckets of a limited histogram do not cover, which the storages log and
\* drop (hashmap.rs:64-69, total.rs:64-69).
HistRecord(h, v) ==
    LET highest == HighestEquivalent(h, v)
    IN  IF ~Covers(h, v)
        THEN h
        ELSE [h EXCEPT !.counts = @ (+) SetToBag({LowestEquivalent(h, v)}),
                       !.max = IF highest > @ THEN highest ELSE @]

\* Histogram::add returns Err(OtherAddendValueExceedsRange) when max() of
\* the source is a value the buckets of a limited histogram do not cover;
\* the operators += and + unwrap the result, and panic.
HistAddFails(h, source) == ~Covers(h, HistMax(source))

RECURSIVE CountOf(_, _, _, _)
\* The samples of the bag `counts` in the values of S that fall into the
\* sub-bucket of w in the histogram h.
CountOf(counts, h, w, S) ==
    IF S = {} THEN 0
    ELSE LET v == CHOOSE x \in S : TRUE
         IN  (IF LowestEquivalent(h, v) = w THEN counts[v] ELSE 0)
                + CountOf(counts, h, w, S \ {v})

\* The counts of a source histogram, each value recorded at the sub-bucket
\* it has in the histogram h.
Rebucket(h, counts) ==
    [w \in {LowestEquivalent(h, v) : v \in DOMAIN counts} |->
        CountOf(counts, h, w, DOMAIN counts)]

\* Histogram::add, when it does not fail: every count of the source is
\* added at the value of its sub-bucket, and the maximum of the source is
\* taken over when it is the larger one.
HistAdd(h, source) ==
    LET seen == IF source.max = 0 THEN 0
                ELSE HighestEquivalent(
                         h, LowestEquivalent(source, source.max))
    IN  [h EXCEPT !.counts = @ (+) Rebucket(h, source.counts),
                  !.max = IF seen > @ THEN seen ELSE @]

\* struct MetricAggregateStorage { inner, proto }
MetricAggregateStorage(histogram) ==
    [kind |-> "metric", inner |-> <<>>, proto |-> histogram]

\* struct TotalAggregateStorage { inner }
TotalAggregateStorage(inner) == [kind |-> "total", inner |-> inner]

\* MetricAggregateStorage::with_limit(sigfig, max_value)
MetricWithLimit(sigfig, max_value) ==
    LET histogram == HistNewWithMax(max_value, sigfig)
    IN  IF histogram.ok THEN Ok(MetricAggregateStorage(histogram.v))
        ELSE histogram

\* MetricAggregateStorage::with_sigfig(sigfig)
MetricWithSigfig(sigfig) ==
    LET histogram == HistNew(sigfig)
    IN  IF histogram.ok THEN Ok(MetricAggregateStorage(histogram.v))
        ELSE histogram

\* MetricAggregateStorage::default
MetricDefault == MetricWithSigfig(3).v

\* TotalAggregateStorage::with_limit(sigfig, max_value)
TotalWithLimit(sigfig, max_value) ==
    LET inner == HistNewWithMax(max_value, sigfig)
    IN  IF inner.ok THEN Ok(TotalAggregateStorage(inner.v)) ELSE inner

\* TotalAggregateStorage::with_sigfig(sigfig)
TotalWithSigfig(sigfig) ==
    LET inner == HistNew(sigfig)
    IN  IF inner.ok THEN Ok(TotalAggregateStorage(inner.v)) ELSE inner

\* TotalAggregateStorage::default
TotalDefault == TotalAggregateStorage(HistNew(3).v)

\* CombinedAggregateStorage::new, AggregateStorage::and
CombinedAggregateStorage(l, r) ==
    [kind |-> "combined", left |-> l, right |-> r]

\* MetricAggregateStorage::value(metric).len(): the prototype (empty) when
\* the metric is absent.
MetricLen(s, m) ==
    IF m \in DOMAIN s.inner THEN HistLen(s.inner[m]) ELSE HistLen(s.proto)

RECURSIVE StorageClone(_)
\* impl Clone: the prototype is kept, the counts are dropped; the histogram
\* of a TotalAggregateStorage is cloned and cleared.
StorageClone(s) ==
    CASE s.kind = "metric" -> [s EXCEPT !.inner = <<>>]
      [] s.kind = "total" -> [s EXCEPT !.inner = HistClear(@)]
      [] s.kind = "combined" ->
            CombinedAggregateStorage(StorageClone(s.left),
                                     StorageClone(s.right))

\* MetricAggregateStorage::record
MetricRecord(s, metric, v) ==
    LET histogram == IF metric \in DOMAIN s.inner
                     THEN s.inner[metric] ELSE s.proto
    IN  [s EXCEPT !.inner =
            [m \in DOMAIN s.inner \cup {metric} |->
                IF m = metric THEN HistRecord(histogram, v)
                ELSE s.inner[m]]]

\* TotalAggregateStorage::record
TotalRecord(s, v) == [s EXCEPT !.inner = HistRecord(@, v)]

RECURSIVE StorageRecord_LeftOnly(_, _, _)
\* Mutant of StorageRecord: a combined storage records into its left part
\* only.
StorageRecord_LeftOnly(s, metric, v) ==
    CASE s.kind = "metric" -> MetricRecord(s, metric, v)
      [] s.kind = "total" -> TotalRecord(s, v)
      [] s.kind = "combined" ->
            CombinedAggregateStorage(
                StorageRecord_LeftOnly(s.left, metric, v), s.right)

RECURSIVE StorageRecord(_, _, _)
\* AggregateStorage::record
StorageRecord(s, metric, v) ==
    CASE s.kind = "metric" -> MetricRecord(s, metric, v)
      [] s.kind = "total" -> TotalRecord(s, v)
      [] s.kind = "combined" ->
            CombinedAggregateStorage(StorageRecord(s.left, metric, v),
                                     StorageRecord(s.right, metric, v))

\* MetricAggregateStorage::merge, when no += panics
MetricMerge(a, b) ==
    [a EXCEPT !.inner =
        [m \in DOMAIN a.inner \cup DOMAIN b.inner |->
            IF m \in DOMAIN a.inner
            THEN IF m \in DOMAIN b.inner
                 THEN HistAdd(a.inner[m], b.inner[m])
                 ELSE a.inner[m]
            ELSE b.inner[m]]]

\* TotalAggregateStorage::merge, when + does not panic
TotalMerge(a, b) == [a EXCEPT !.inner = HistAdd(@, b.inner)]

RECURSIVE StorageMerge(_, _)
\* AggregateStorage::merge, when it does not panic
StorageMerge(a, b) ==
    CASE a.kind = "metric" -> MetricMerge(a, b)
      [] a.kind = "total" -> TotalMerge(a, b)
      [] a.kind = "combined" ->
            CombinedAggregateStorage(StorageMerge(a.left, b.left),
                                     StorageMerge(a.right, b.right))

RECURSIVE MergePanics(_, _)
\* AggregateStorage::merge panics: a histogram of `a` cannot take the values
\* of the histogram of `b` added to it (hashmap.rs:76, total.rs:74).
MergePanics(a, b) ==
    CASE a.kind = "metric" ->
            \E m \in DOMAIN a.inner \cap DOMAIN b.inner :
                HistAddFails(a.inner[m], b.inner[m])
      [] a.kind = "total" -> HistAddFails(a.inner, b.inner)
      [] a.kind = "combined" ->
            MergePanics(a.left, b.left) \/ MergePanics(a.right, b.right)

RECURSIVE Leaves(_)
\* The storages a storage is made of, left to right:
\* CombinedAggregateStorage::unwrap, repeated.
Leaves(s) ==
    IF s.kind = "combined" THEN Leaves(s.left) \o Leaves(s.right) ELSE <<s>>

RECURSIVE SumLen(_, _)
\* The samples of the histograms of `inner` for the metrics in S.
SumLen(inner, S) ==
    IF S = {} THEN 0
    ELSE LET m == CHOOSE x \in S : TRUE
         IN  HistLen(inner[m]) + SumLen(inner, S \ {m})

\* The number of samples held by a storage that is not combined.
LeafLen(s) ==
    IF s.kind = "total" THEN HistLen(s.inner)
    ELSE SumLen(s.inner, DOMAIN s.inner)

(***************************************************************************)
(* AggregateScale (profusion/src/aggregate/scale.rs).                      *)
(* A Duration is [secs, nanos] with nanos < 1e9.                           *)
(***************************************************************************)
NANOS_PER_SEC == 1000000000
MICROS_PER_SEC == 1000000
MILLIS_PER_SEC == 1000

Duration(secs, nanos) == [secs |-> secs, nanos |-> nanos]

\* Mutant of duration_to_value: the sub-second part is rounded up to the
\* next unit of the scale.
duration_to_value_RoundsUp(scale, d) ==
    CASE scale = "Nanoseconds" -> d.secs * NANOS_PER_SEC + d.nanos
      [] scale = "Microseconds" ->
            d.secs * MICROS_PER_SEC + (d.nanos + 999) \div 1000
      [] scale = "Milliseconds" ->
            d.secs * MILLIS_PER_SEC + (d.nanos + 999999) \div 1000000
      [] scale = "Seconds" -> d.secs + (IF d.nanos > 0 THEN 1 ELSE 0)

\* AggregateScale::duration_to_value
duration_to_value(scale, d) ==
    CASE scale = "Nanoseconds" -> d.secs * NANOS_PER_SEC + d.nanos
      [] scale = "Microseconds" -> d.secs * MICROS_PER_SEC + d.nanos \div 1000
      [] scale = "Milliseconds" ->
            d.secs * MILLIS_PER_SEC + d.nanos \div 1000000
      [] scale = "Seconds" -> d.secs

\* AggregateScale::value_to_duration: Duration::from_nanos / from_micros /
\* from_millis / from_secs
value_to_duration(scale, value) ==
    CASE scale = "Nanoseconds" ->
            Duration(value \div NANOS_PER_SEC, value % NANOS_PER_SEC)
      [] scale = "Microseconds" ->
            Duration(value \div MICROS_PER_SEC,
                     (value % MICROS_PER_SEC) * 1000)
      [] scale = "Milliseconds" ->
            Duration(value \div MILLIS_PER_SEC,
                     (value % MILLIS_PER_SEC) * 1000000)
      [] scale = "Seconds" -> Duration(value, 0)

(***************************************************************************)
(* StartTime::window (src/start_time.rs), on the nanoseconds elapsed since *)
(* the epoch and the window in nanoseconds.                                *)
(***************************************************************************)
\* Mutant of Window: the remainder is not compared, the next boundary is
\* always taken.
Window_AlwaysUp(elapsed, bucket_nanos) ==
    IF bucket_nanos = 0 THEN elapsed
    ELSE (elapsed \div bucket_nanos) * bucket_nanos + bucket_nanos

\* Mutant of Window: a remainder of half the window rounds down.
Window_HalfDown(elapsed, bucket_nanos) ==
    IF bucket_nanos = 0 THEN elapsed
    ELSE LET buckets == elapsed \div bucket_nanos
             remainder == elapsed % bucket_nanos
         IN  buckets * bucket_nanos
                + (IF remainder <= bucket_nanos \div 2 THEN 0
                   ELSE bucket_nanos)

\* Mutant of Window: the arms of the comparison are exchanged.
Window_ArmsSwapped(elapsed, bucket_nanos) ==
    IF bucket_nanos = 0 THEN elapsed
    ELSE LET buckets == elapsed \div bucket_nanos
             remainder == elapsed % bucket_nanos
         IN  buckets * bucket_nanos
                + (IF remainder < bucket_nanos \div 2 THEN bucket_nanos
                   ELSE 0)

Window(elapsed, bucket_nanos) ==
    IF bucket_nanos = 0 THEN elapsed
    ELSE LET buckets == elapsed \div bucket_nanos
             remainder == elapsed % bucket_nanos
         IN  buckets * bucket_nanos
                + (IF remainder < bucket_nanos \div 2 THEN 0
                   ELSE bucket_nanos)

(***************************************************************************)
(* TimelineItem (profusion/src/aggregate/timeline/item.rs)                 *)
(***************************************************************************)
\* TimelineItem::new
NewItem(time, storage, errors, usersCount) ==
    [time |-> time, storage |-> storage, errors |-> errors,
     users |-> usersCount]

\* TimelineItem::record
ItemRecord(item, metric, v) ==
    [item EXCEPT !.storage = StorageRecord(item.storage, metric, v)]

\* The shared counter is an AtomicUsize changed by fetch_add / fetch_sub,
\* which wrap. It is held as an integer representative of its value modulo
\* 2^64: a negative representative r stands for 2^64 + r, so the unsigned
\* order puts every negative representative above every non-negative one.
UsizeLess(a, b) ==
    IF (a < 0) = (b < 0) THEN a < b ELSE b < 0

\* std::cmp::max on usize
UsizeMax(a, b) == IF UsizeLess(a, b) THEN b ELSE a

\* Mutant of update_counters: the user count is maximised, not overwritten.
update_counters_Max(item, error, usersCount) ==
    [item EXCEPT !.errors = IF error.some THEN @ + 1 ELSE @,
                 !.users = UsizeMax(@, usersCount)]

\* Mutant of update_counters: every entry is counted as an error.
update_counters_CountsAll(item, error, usersCount) ==
    [item EXCEPT !.errors = @ + 1, !.users = usersCount]

\* TimelineItem::update_counters
update_counters(item, error, usersCount) ==
    [item EXCEPT !.errors = IF error.some THEN @ + 1 ELSE @,
                 !.users = usersCount]

\* Mutant of ItemMergeInto: the counters of the merged item replace those
\* of the target.
ItemMergeInto_Overwrites(self, other) ==
    [other EXCEPT !.storage = StorageMerge(other.storage, self.storage),
                  !.users = self.users,
                  !.errors = self.errors]

\* TimelineItem::merge_into(self, other): the new value of `other`
ItemMergeInto(self, other) ==
    [other EXCEPT !.storage = StorageMerge(other.storage, self.storage),
                  !.users = UsizeMax(other.users, self.users),
                  !.errors = other.errors + self.errors]

(***************************************************************************)
(* Counter (profusion/src/aggregate/timeline/aggregate.rs:8-39)            *)
(***************************************************************************)
\* Counter::increment: fetch_add(1), run by Counter::clone
CounterIncrement(c) == c + 1

\* Counter::decrement: fetch_sub(1), run by Counter::drop
CounterDecrement(c) == c - 1

\* Counter::current
CounterCurrent(c) == c

(***************************************************************************)
(* Inputs of the timeline.                                                 *)
(***************************************************************************)
AggIds == {"A", "B"}
WindowSizes == {1, 2}
TimelineScales == {"Microseconds"}
Protos ==
    { MetricDefault,
      CombinedAggregateStorage(MetricWithLimit(3, 1500).v, TotalDefault) }
\* (metric, latency, error) of an add_entry call
AddEntryInputs ==
    { <<"One", Duration(0, 1500000), None>>,
      <<"Two", Duration(0, 2500000), Some(Timeout(Duration(0, 1000000)))>> }

NoAggregate == [timeline |-> <<>>, storage |-> [kind |-> "none"],
                total |-> [kind |-> "none"]]

(***************************************************************************)
(* TimelineAggregateBuilder and TimelineAggregate                          *)
(***************************************************************************)
\* Vec::insert(position, item), position counted from 0
InsertAt(s, position, item) ==
    SubSeq(s, 1, position) \o <<item>> \o SubSeq(s, position + 1, Len(s))

RECURSIVE BinarySearchIn(_, _, _, _)
\* slice::binary_search from the state `base`, `size` of its loop,
\* positions counted from 0, by TimelineItem's Ord (item.rs:21-39): the
\* time alone.  An empty slice is Err(0).  The loop halves `size` down to
\* 1 and moves `base` to the middle unless the item there is greater; it
\* does not stop at an equal item, so of several items with the time
\* searched for it finds the one the halving ends at.  The item at `base`
\* then decides: Ok(base) when it is equal, or else Err with the position
\* after it when it is less and its own position when it is greater.
BinarySearchIn(timeline, time, base, size) ==
    IF size = 0 THEN [found |-> FALSE, position |-> 0]
    ELSE IF size > 1
    THEN LET half == size \div 2
             mid == base + half
         IN  BinarySearchIn(timeline, time,
                            IF timeline[mid + 1].time > time THEN base
                            ELSE mid,
                            size - half)
    ELSE LET t == timeline[base + 1].time
         IN  IF t = time THEN [found |-> TRUE, position |-> base]
             ELSE [found |-> FALSE,
                   position |-> base + (IF t < time THEN 1 ELSE 0)]

\* other.timeline.binary_search(&item)
BinarySearch(timeline, item) ==
    BinarySearchIn(timeline, item.time, 0, Len(timeline))

\* Mutant of MergeItem: an item with a new key is pushed at the end.
MergeItem_Push(timeline, item) ==
    LET r == BinarySearch(timeline, item)
    IN  IF r.found
        THEN [timeline EXCEPT ![r.position + 1] = ItemMergeInto(item, @)]
        ELSE Append(timeline, item)

\* Mutant of MergeItem: an item with a known key replaces the target's.
MergeItem_Replace(timeline, item) ==
    LET r == BinarySearch(timeline, item)
    IN  IF r.found
        THEN [timeline EXCEPT ![r.position + 1] = item]
        ELSE InsertAt(timeline, r.position, item)

\* merge_into, the body of the loop (lines 132-137): the new other.timeline
MergeItem(timeline, item) ==
    LET r == BinarySearch(timeline, item)
    IN  IF r.found
        THEN [timeline EXCEPT ![r.position + 1] = ItemMergeInto(item, @)]
        ELSE InsertAt(timeline, r.position, item)

RECURSIVE MergeTimeline(_, _)
\* merge_into, the loop (lines 131-138): the new other.timeline
MergeTimeline(items, timeline) ==
    IF items = <<>> THEN timeline
    ELSE MergeTimeline(Tail(items), MergeItem(timeline, Head(items)))

\* Mutant of CurrentItem: a fresh item is pushed for every entry.
CurrentItem_AlwaysPush(timeline, time_window, storage) ==
    Append(timeline, NewItem(time_window, StorageClone(storage), 0, 0))

\* add_entry, lines 109-121: the timeline whose last item is the one to
\* record into.
CurrentItem(timeline, time_window, storage) ==
    IF timeline # <<>> /\ Last(timeline).time = time_window
    THEN timeline
    ELSE Append(timeline, NewItem(time_window, StorageClone(storage), 0, 0))

\* Mutant of RecordInto: an entry with an error is counted, not recorded.
RecordInto_SkipsErrors(item, metric, v, error, usersCount) ==
    IF error.some THEN update_counters(item, error, usersCount)
    ELSE update_counters(ItemRecord(item, metric, v), error, usersCount)

\* add_entry, lines 124-125 and again 126-127:
\* item.record(metric, latency); item.update_counters(error, users.current())
RecordInto(item, metric, v, error, usersCount) ==
    update_counters(ItemRecord(item, metric, v), error, usersCount)

\* TimelineAggregateBuilder::build
build(a) ==
    /\ ~flushed.some
    /\ builderAlive
    /\ alive[a] = "unbuilt"
    /\ aggs' = [aggs EXCEPT ![a] =
                  [timeline |-> <<>>,
                   storage |-> StorageClone(proto),
                   total |-> NewItem(Window(now, settings.window),
                                     StorageClone(proto), 0, 0)]]
    /\ users' = CounterIncrement(users)
    /\ alive' = [alive EXCEPT ![a] = "live"]
    /\ UNCHANGED <<now, measurerVars, libVars, execVars, settings, proto, builderAlive, apc,
                   hist, pure, flushed, entries>>

\* TimelineAggregate::add_entry, lines 108-126: the entry is recorded in the
\* item of the current window, with the counter value read at line 125, and
\* in the grand total.
AddEntryItem(a, metric, latency, error) ==
    /\ ~flushed.some
    /\ alive[a] = "live"
    /\ ~apc[a].some
    /\ entries < MaxEntries
    /\ LET time_window == Window(now, settings.window)
           timeline == CurrentItem(aggs[a].timeline, time_window,
                                   aggs[a].storage)
           v == duration_to_value(settings.scale, latency)
           item == RecordInto(Last(timeline), metric, v, error,
                              CounterCurrent(users))
       IN  /\ aggs' = [aggs EXCEPT
                          ![a].timeline =
                              [timeline EXCEPT ![Len(timeline)] = item],
                          ![a].total = ItemRecord(@, metric, v)]
           /\ hist' = [hist EXCEPT ![a] =
                          Append(@, [key |-> time_window, metric |-> metric,
                                     latency |-> v, error |-> error.some])]
    /\ apc' = [apc EXCEPT ![a] = Some(error)]
    /\ entries' = entries + 1
    /\ UNCHANGED <<now, measurerVars, libVars, execVars, settings, proto, builderAlive, users,
                   alive, pure, flushed>>

\* TimelineAggregate::add_entry, line 127: the counters of the grand total
\* are updated, with the counter value read at line 127.
AddEntryTotal(a) ==
    /\ ~flushed.some
    /\ alive[a] = "live"
    /\ apc[a].some
    /\ aggs' = [aggs EXCEPT ![a].total =
                   update_counters(@, apc[a].v, CounterCurrent(users))]
    /\ apc' = [apc EXCEPT ![a] = None]
    /\ UNCHANGED <<now, measurerVars, libVars, execVars, settings, proto, builderAlive, users,
                   alive, hist, pure, flushed, entries>>

\* TimelineAggregate::add_entry(metric, latency, error), started
add_entry ==
    \E a \in AggIds, input \in AddEntryInputs :
        AddEntryItem(a, input[1], input[2], input[3])

\* The aggregate `a` is consumed: its Counter handle is dropped.
Consume(a) ==
    /\ alive' = [alive EXCEPT ![a] = "gone"]
    /\ users' = CounterDecrement(users)
    /\ hist' = [hist EXCEPT ![a] = <<>>]

\* Mutant of merge_into: the grand totals are merged as the items are.
merge_into_MergesTotals(a, b) ==
    /\ ~flushed.some
    /\ a # b
    /\ alive[a] = "live" /\ ~apc[a].some
    /\ alive[b] = "live" /\ ~apc[b].some
    /\ aggs' = [aggs EXCEPT
                  ![b].timeline = MergeTimeline(aggs[a].timeline, @),
                  ![b].total = ItemMergeInto(aggs[a].total, @),
                  ![a] = NoAggregate]
    /\ pure' = [pure EXCEPT ![b] = FALSE, ![a] = TRUE]
    /\ Consume(a)
    /\ UNCHANGED <<now, measurerVars, libVars, execVars, settings, proto, builderAlive,
                   apc, flushed, entries>>

\* TimelineAggregate::merge_into(self, other)
merge_into(a, b) ==
    /\ ~flushed.some
    /\ a # b
    /\ alive[a] = "live" /\ ~apc[a].some
    /\ alive[b] = "live" /\ ~apc[b].some
    /\ aggs' = [aggs EXCEPT
                  ![b].timeline = MergeTimeline(aggs[a].timeline, @),
                  ![a] = NoAggregate]
    /\ pure' = [pure EXCEPT ![b] = FALSE, ![a] = TRUE]
    /\ Consume(a)
    /\ UNCHANGED <<now, measurerVars, libVars, execVars, settings, proto, builderAlive, apc,
                   flushed, entries>>

\* TimelineAggregate::flush(self)
flush(a) ==
    /\ ~flushed.some
    /\ alive[a] = "live" /\ ~apc[a].some
    /\ flushed' = Some([total |-> aggs[a].total,
                        timeline |-> aggs[a].timeline,
                        pure |-> pure[a]])
    /\ aggs' = [aggs EXCEPT ![a] = NoAggregate]
    /\ pure' = [pure EXCEPT ![a] = TRUE]
    /\ Consume(a)
    /\ UNCHANGED <<now, measurerVars, libVars, execVars, settings, proto, builderAlive, apc,
                   entries>>

\* drop(aggregate)
DropAggregate(a) ==
    /\ ~flushed.some
    /\ alive[a] = "live" /\ ~apc[a].some
    /\ aggs' = [aggs EXCEPT ![a] = NoAggregate]
    /\ pure' = [pure EXCEPT ![a] = TRUE]
    /\ Consume(a)
    /\ UNCHANGED <<now, measurerVars, libVars, execVars, settings, proto, builderAlive, apc,
                   flushed, entries>>

\* drop(builder): its Counter handle is dropped too
DropBuilder ==
    /\ ~flushed.some
    /\ builderAlive
    /\ builderAlive' = FALSE
    /\ users' = CounterDecrement(users)
    /\ UNCHANGED <<now, measurerVars, libVars, execVars, settings, proto, alive, aggs, apc,
                   hist, pure, flushed, entries>>

\* The pair returned by flush is dropped by its caller. Nothing reads it, so
\* how long it is held changes nothing else: it is dropped before the next
\* operation (every other action waits for ~flushed.some).
DropFlushed ==
    /\ flushed.some
    /\ flushed' = None
    /\ UNCHANGED <<now, measurerVars, libVars, execVars, settings, proto, builderAlive, users,
                   alive, aggs, apc, hist, pure, entries>>

\* tokio's clock advances.
TimelineTick ==
    /\ ~flushed.some
    /\ now < MaxElapsed
    /\ now' = now + 1
    /\ UNCHANGED <<measurerVars, timelineVars, libVars, execVars>>

\* The measurer is not used by the timeline's specification.
MeasurerIdle ==
    /\ timeout = None
    /\ values = <<>>
    /\ pc = "idle"
    /\ call = [kind |-> "none"]
    /\ start = 0
    /\ result = NoResult
    /\ completed = 0

\* TimelineAggregateBuilder::with_settings(storage, settings)
Init ==
    /\ now = 0
    /\ MeasurerIdle
    /\ settings \in [window : WindowSizes, scale : TimelineScales]
    /\ proto \in Protos
    /\ builderAlive = TRUE
    /\ users = 0
    /\ alive = [a \in AggIds |-> "unbuilt"]
    /\ aggs = [a \in AggIds |-> NoAggregate]
    /\ apc = [a \in AggIds |-> None]
    /\ hist = [a \in AggIds |-> <<>>]
    /\ pure = [a \in AggIds |-> TRUE]
    /\ flushed = None
    /\ entries = 0
    /\ LibIdle

Next ==
    \/ \E a \in AggIds : build(a)
    \/ add_entry
    \/ \E a \in AggIds : AddEntryTotal(a)
    \/ \E a, b \in AggIds : merge_into(a, b)
    \/ \E a \in AggIds : flush(a)
    \/ \E a \in AggIds : DropAggregate(a)
    \/ DropBuilder
    \/ DropFlushed
    \/ TimelineTick

Spec == Init /\ [][Next]_vars

(***************************************************************************)
(* SpecMerge: three aggregates of one builder, each after add_entry calls  *)
(* drawn from a bounded set, merged into one another in every order.       *)
(***************************************************************************)
MaxMergeKeys == 2     \* bucket keys the merged aggregates record into

MergeIds == {"A", "B", "C"}

\* (metric, latency, error) of an add_entry call.
MergeEntries ==
    { [metric |-> "One", latency |-> Duration(0, 1500000), error |-> None],
      [metric |-> "Two", latency |-> Duration(0, 2500000),
       error |-> Some(Timeout(Duration(0, 1000000)))] }

\* The entries recorded in a bucket: either one in the first bucket, the
\* failing one in the later buckets.
BucketEntries(key) ==
    IF key = 0 THEN MergeEntries ELSE {e \in MergeEntries : e.error.some}

\* The aggregates are built at the epoch, one after the other, and the
\* add_entry calls of the first bucket are made in between and afterwards:
\* such a call reads the number of the aggregates built so far, which is at
\* least the place of its own aggregate in the order of the builds.  The
\* calls of the later buckets read the number of all aggregates.
BuildOrders ==
    {order \in [MergeIds -> 1 .. Cardinality(MergeIds)] :
        \A a, b \in MergeIds : a # b => order[a] # order[b]}

UsersRead(key) ==
    IF key = 0 THEN 1 .. Cardinality(MergeIds) ELSE {Cardinality(MergeIds)}

\* The add_entry calls made while `key` was the current bucket: none or one,
\* with the counter value it read.
CallChoices(key) ==
    {<<>>} \cup {<<[key |-> key, users |-> u] @@ e>> :
                    e \in BucketEntries(key), u \in UsersRead(key)}

RECURSIVE CallSeqs(_, _)
\* The calls made on one aggregate over the first n buckets of `window`.
CallSeqs(n, window) ==
    IF n = 0 THEN {<<>>}
    ELSE {s \o t : s \in CallSeqs(n - 1, window),
                   t \in CallChoices((n - 1) * window)}

\* TimelineAggregate::add_entry run as a whole, with the bucket key and the
\* counter value it read.
Recorded(agg, s, c) ==
    LET timeline == CurrentItem(agg.timeline, c.key, agg.storage)
        v == duration_to_value(s.scale, c.latency)
        item == RecordInto(Last(timeline), c.metric, v, c.error, c.users)
    IN  [agg EXCEPT
            !.timeline = [timeline EXCEPT ![Len(timeline)] = item],
            !.total = RecordInto(@, c.metric, v, c.error, c.users)]

RECURSIVE AggregateOf(_, _, _)
\* The aggregate `agg` after the add_entry calls `calls`.
AggregateOf(agg, s, calls) ==
    IF calls = <<>> THEN agg
    ELSE AggregateOf(Recorded(agg, s, Head(calls)), s, Tail(calls))

\* TimelineAggregateBuilder::build at the epoch
Built(s, storage) ==
    [timeline |-> <<>>,
     storage |-> StorageClone(storage),
     total |-> NewItem(Window(0, s.window), StorageClone(storage), 0, 0)]

\* The calls as add_entry records them in `hist`.
HistOf(s, calls) ==
    [i \in 1 .. Len(calls) |->
        [key |-> calls[i].key, metric |-> calls[i].metric,
         latency |-> duration_to_value(s.scale, calls[i].latency),
         error |-> calls[i].error.some]]

MergeInit ==
    /\ now = MaxMergeKeys * 2
    /\ MeasurerIdle
    /\ LibIdle
    /\ settings = [window |-> 2, scale |-> "Microseconds"]
    /\ proto \in Protos
    /\ builderAlive = TRUE
    /\ users = Cardinality(MergeIds)
    /\ alive = [a \in MergeIds |-> "live"]
    /\ \E order \in BuildOrders,
          calls \in [MergeIds -> CallSeqs(MaxMergeKeys, 2)] :
          /\ \A a \in MergeIds : \A i \in 1 .. Len(calls[a]) :
                calls[a][i].users >= order[a]
          /\ aggs = [a \in MergeIds |->
                        AggregateOf(Built(settings, proto), settings,
                                    calls[a])]
          /\ hist = [a \in MergeIds |-> HistOf(settings, calls[a])]
    /\ apc = [a \in MergeIds |-> None]
    /\ pure = [a \in MergeIds |-> TRUE]
    /\ flushed = None
    /\ entries = 0

MergeNext == \E a, b \in MergeIds : merge_into(a, b)

SpecMerge == MergeInit /\ [][MergeNext]_vars

(***************************************************************************)
(* SpecSplit: one aggregate over a combined storage, recorded into and     *)
(* then split into the aggregates "L" and "R" of its two parts.            *)
(***************************************************************************)
SplitIds == {"A", "L", "R"}

\* Mutant of ItemSplit: the right part starts with fresh counters.
ItemSplit_FreshRight(item) ==
    [left |-> [item EXCEPT !.storage = item.storage.left],
     right |-> NewItem(item.time, item.storage.right, 0, 0)]

\* TimelineItem::split
ItemSplit(item) ==
    [left |-> [item EXCEPT !.storage = item.storage.left],
     right |-> [item EXCEPT !.storage = item.storage.right]]

\* TimelineAggregate::split(self): the aggregates l and r are made with a
\* clone of the Counter handle each, and the handle of `a` is dropped.
split(a, l, r) ==
    /\ ~flushed.some
    /\ alive[a] = "live" /\ ~apc[a].some
    /\ alive[l] = "unbuilt" /\ alive[r] = "unbuilt"
    /\ aggs[a].storage.kind = "combined"
    /\ LET total == ItemSplit(aggs[a].total)
           timeline == [i \in 1 .. Len(aggs[a].timeline) |->
                           ItemSplit(aggs[a].timeline[i])]
       IN  aggs' = [aggs EXCEPT
                      ![a] = NoAggregate,
                      ![l] = [timeline |->
                                 [i \in 1 .. Len(timeline) |->
                                     timeline[i].left],
                              storage |-> aggs[a].storage.left,
                              total |-> total.left],
                      ![r] = [timeline |->
                                 [i \in 1 .. Len(timeline) |->
                                     timeline[i].right],
                              storage |-> aggs[a].storage.right,
                              total |-> total.right]]
    /\ alive' = [alive EXCEPT ![a] = "gone", ![l] = "live", ![r] = "live"]
    /\ users' = CounterDecrement(CounterIncrement(CounterIncrement(users)))
    /\ pure' = [pure EXCEPT ![l] = pure[a], ![r] = pure[a]]
    /\ UNCHANGED <<now, measurerVars, libVars, execVars, settings, proto, builderAlive,
                   apc, hist, flushed, entries>>

\* The storages split: the combined one of Protos, and
\* MetricAggregateStorage::default().and(with_sigfig(1).unwrap()) of the
\* test allows_splitting_chained_storage_in_timeline.
SplitProtos ==
    {p \in Protos : p.kind = "combined"}
        \cup {CombinedAggregateStorage(MetricDefault, MetricWithSigfig(1).v)}

\* TimelineAggregateBuilder::with_settings(CombinedAggregateStorage, settings)
SplitInit ==
    /\ now = 0
    /\ MeasurerIdle
    /\ LibIdle
    /\ settings \in [window : WindowSizes, scale : TimelineScales]
    /\ proto \in SplitProtos
    /\ builderAlive = TRUE
    /\ users = 0
    /\ alive = [a \in SplitIds |-> "unbuilt"]
    /\ aggs = [a \in SplitIds |-> NoAggregate]
    /\ apc = [a \in SplitIds |-> None]
    /\ hist = [a \in SplitIds |-> <<>>]
    /\ pure = [a \in SplitIds |-> TRUE]
    /\ flushed = None
    /\ entries = 0

SplitNext ==
    \/ build("A")
    \/ \E input \in AddEntryInputs :
          AddEntryItem("A", input[1], input[2], input[3])
    \/ AddEntryTotal("A")
    \/ DropBuilder
    \/ TimelineTick
    \/ split("A", "L", "R")

SpecSplit == SplitInit /\ [][SplitNext]_vars

(***************************************************************************)
(* SpecStorage: storage values of one type, recorded into, merged and       *)
(* cloned.                                                                 *)
(***************************************************************************)
MaxSamples == 2       \* samples the storages hold together

StoreIds == {"s1", "s2", "s3"}

\* (metric, latency_value) of a record call
StoreInputs == { <<"Two", 1500>>, <<"One", 2000>>, <<"Two", 2500>> }

\* What the constructors called return, per type of storage: default(),
\* with_sigfig(sigfig) and with_limit(sigfig, max_value); with_limit(3, 1)
\* is an Err(CreationError), as 1 is below twice the lowest value 1.
StorageConfigs(kind) ==
    CASE kind = "metric" ->
            << Ok(MetricDefault), MetricWithLimit(3, 1500),
               MetricWithLimit(3, 1) >>
      [] kind = "total" ->
            << Ok(TotalDefault), TotalWithLimit(3, 1500),
               TotalWithLimit(3, 1) >>
      [] kind = "combined" ->
            [ n \in 1 .. 3 |->
                LET left == << MetricWithLimit(1, 6100),
                               MetricWithLimit(3, 1500),
                               MetricWithLimit(3, 1) >>[n]
                IN  IF ~left.ok THEN left
                    ELSE Ok(CombinedAggregateStorage(left.v, TotalDefault)) ]

\* A variable whose storage was moved into a merge, or that holds none yet,
\* and the outcome of a merge that panicked.
Moved == [kind |-> "moved"]
Panicked == [kind |-> "panicked"]

IsStorage(i) == stores[i].value.kind \notin {"moved", "panicked"}
NoPanic == \A i \in StoreIds : stores[i].value # Panicked

RECURSIVE Held(_)
\* The samples a storage holds (in the fuller of the parts of a combined
\* storage).
Held(s) ==
    IF s.kind = "combined"
    THEN IF Held(s.left) > Held(s.right) THEN Held(s.left) ELSE Held(s.right)
    ELSE LeafLen(s)

RECURSIVE HeldBy(_)
HeldBy(S) ==
    IF S = {} THEN 0
    ELSE LET i == CHOOSE x \in S : TRUE
         IN  (IF IsStorage(i) THEN Held(stores[i].value) ELSE 0)
                + HeldBy(S \ {i})

\* AggregateStorage::record(metric, latency_value) on the storage i
RecordStore(i, metric, v) ==
    /\ NoPanic
    /\ IsStorage(i)
    /\ HeldBy(StoreIds) < MaxSamples
    /\ stores' = [stores EXCEPT
                    ![i].value = StorageRecord(@, metric, v)]
    /\ UNCHANGED <<now, measurerVars, timelineVars, bucket, execVars>>

\* stores[i] = stores[i].merge(stores[j]): both values are moved into the
\* call, which panics or returns the merged storage.
MergeStores(i, j) ==
    /\ NoPanic
    /\ i # j
    /\ IsStorage(i) /\ IsStorage(j)
    /\ stores' = [stores EXCEPT
                    ![i].value =
                        IF MergePanics(stores[i].value, stores[j].value)
                        THEN Panicked
                        ELSE StorageMerge(stores[i].value, stores[j].value),
                    ![i].made = @ \cup stores[j].made,
                    ![j].value = Moved]
    /\ UNCHANGED <<now, measurerVars, timelineVars, bucket, execVars>>

\* stores[j] = stores[i].clone(), into a variable whose value was moved
CloneStore(i, j) ==
    /\ NoPanic
    /\ IsStorage(i)
    /\ stores[j].value = Moved
    /\ stores' = [stores EXCEPT
                    ![j] = [made |-> stores[i].made,
                            value |-> StorageClone(stores[i].value)]]
    /\ UNCHANGED <<now, measurerVars, timelineVars, bucket, execVars>>

\* Two storages of one type, each made by a constructor that returned Ok,
\* and a variable that holds no storage yet.  "made" keeps the storages as they
\* were constructed whose samples went into the value.
StorageInit ==
    /\ now = 0
    /\ MeasurerIdle
    /\ TimelineIdle
    /\ bucket = None
    /\ ExecIdle
    /\ \E kind \in {"metric", "total", "combined"} :
          \E n1, n2 \in 1 .. Len(StorageConfigs(kind)) :
              LET c1 == StorageConfigs(kind)[n1]
                  c2 == StorageConfigs(kind)[n2]
              IN  /\ c1.ok /\ c2.ok
                  /\ stores = [i \in StoreIds |->
                        CASE i = "s1" -> [made |-> {c1.v}, value |-> c1.v]
                          [] i = "s2" -> [made |-> {c2.v}, value |-> c2.v]
                          [] OTHER -> [made |-> {}, value |-> Moved]]

StorageNext ==
    \/ \E i \in StoreIds, input \in StoreInputs :
          RecordStore(i, input[1], input[2])
    \/ \E i, j \in StoreIds : MergeStores(i, j)
    \/ \E i, j \in StoreIds : CloneStore(i, j)

SpecStorage == StorageInit /\ [][StorageNext]_vars

(***************************************************************************)
(* SpecWindow: a StartTime made by StartTime::now() at time 0, asked for    *)
(* the window of the elapsed time as the clock advances.  Times are in     *)
(* nanoseconds.                                                            *)
(***************************************************************************)
MaxWindow == 4            \* the largest window asked for
MaxWindowElapsed == 8     \* the clock stops here

\* tokio's clock advances by a nanosecond.
WindowTick ==
    /\ now < MaxWindowElapsed
    /\ now' = now + 1
    /\ UNCHANGED <<measurerVars, timelineVars, libVars, execVars>>

\* StartTime::window(&Duration::from_nanos(window)); `bucket` keeps the call
\* and what it returned, and the same of the call before it.
CallWindow(window) ==
    /\ bucket' = Some([window |-> window, elapsed |-> now,
                       result |-> Window(now, window),
                       before |-> IF bucket = None THEN None
                                  ELSE Some([window |-> bucket.v.window,
                                             elapsed |-> bucket.v.elapsed,
                                             result |-> bucket.v.result])])
    /\ UNCHANGED <<now, measurerVars, timelineVars, stores, execVars>>

\* StartTime::now()
WindowInit ==
    /\ now = 0
    /\ MeasurerIdle
    /\ TimelineIdle
    /\ LibIdle

WindowNext ==
    \/ WindowTick
    \/ \E window \in 0 .. MaxWindow : CallWindow(window)

SpecWindow == WindowInit /\ [][WindowNext]_vars

(***************************************************************************)
(* SpecScale: AggregateScale conversions of a duration to a value and back, *)
(* and of a value to a duration and back.                                  *)
(***************************************************************************)
MaxSecs == 1              \* the whole seconds of the durations converted

AggregateScale == {"Nanoseconds", "Microseconds", "Milliseconds", "Seconds"}

\* The largest value of the model's integers, in the place of u64::MAX.
ValueLimit == 2147483647

\* Sub-second parts around the units of the scales.
ScaleNanos == {0, 1, 999, 1000, 1999, 999999, 1000000, 1999999, 999999999}

ScaleDurations ==
    {Duration(secs, nanos) : secs \in 0 .. MaxSecs, nanos \in ScaleNanos}

ScaleValues == {0, 1, 999, 1000, 1001, 999999, 1000000, 1000001, 1999999999}

\* duration_to_value does not overflow.
ValueFits(scale, d) ==
    scale = "Nanoseconds" => d.nanos <= ValueLimit - d.secs * NANOS_PER_SEC

\* scale.value_to_duration(scale.duration_to_value(of)) for a duration, or
\* scale.duration_to_value(scale.value_to_duration(of)) for a value
Convert ==
    /\ conv.some
    /\ ~conv.v.done
    /\ conv' = Some(
          IF conv.v.from = "duration"
          THEN LET to == duration_to_value(conv.v.scale, conv.v.of)
               IN  [conv.v EXCEPT !.done = TRUE, !.to = to,
                       !.back = value_to_duration(conv.v.scale, to)]
          ELSE LET to == value_to_duration(conv.v.scale, conv.v.of)
               IN  [conv.v EXCEPT !.done = TRUE, !.to = to,
                       !.back = duration_to_value(conv.v.scale, to)])
    /\ UNCHANGED <<now, measurerVars, timelineVars, libVars, limiterVars,
                   processVars, reportVars, sequenceVars,
                   runnerVars, driverVars, processorVars>>

\* The conversion asked for: a scale and a duration or a value.
ScaleCalls ==
    {[scale |-> scale, from |-> "duration", of |-> d, done |-> FALSE,
      to |-> 0, back |-> 0] :
        scale \in AggregateScale, d \in ScaleDurations}
    \cup
    {[scale |-> scale, from |-> "value", of |-> v, done |-> FALSE,
      to |-> 0, back |-> 0] :
        scale \in AggregateScale, v \in ScaleValues}

ScaleInit ==
    /\ now = 0
    /\ MeasurerIdle
    /\ TimelineIdle
    /\ stores = <<>>
    /\ bucket = None
    /\ RunnerIdle
    /\ DriverIdle
    /\ ProcessorIdle
    /\ LimiterIdle
    /\ ProcessIdle
    /\ ReportIdle
    /\ SequenceIdle
    /\ \E c \in ScaleCalls :
          /\ c.from = "duration" => ValueFits(c.scale, c.of)
          /\ conv = Some(c)

ScaleNext == Convert

SpecScale == ScaleInit /\ [][ScaleNext]_vars

(***************************************************************************)
(* Limiters (src/executor/limit).  A status is what RealtimeStatus reports: *)
(* [connections, operations, total_operations].  Times are in              *)
(* milliseconds.                                                           *)
(***************************************************************************)
\* enum Limit
LimitNone == [kind |-> "None"]
Wait(d) == [kind |-> "Wait", d |-> d]
Shutdown == [kind |-> "Shutdown"]

\* ConcurrencyLimiter::new
ConcurrencyLimiter(max_concurrency, wait_for) ==
    [kind |-> "Concurrency", max_concurrency |-> max_concurrency,
     wait_for |-> wait_for]

\* MaxOperationsLimiter::new
MaxOperationsLimiter(max_operations) ==
    [kind |-> "MaxOperations", max_operations |-> max_operations]

\* MaxDurationLimiter::new(max_duration), called at the time `t`
MaxDurationLimiter(t, max_duration) ==
    [kind |-> "MaxDuration", start |-> t, max_duration |-> max_duration]

\* Mutant of with_delay: the start is not shifted.
with_delay_Ignored(l, delay) == l

\* MaxDurationLimiter::with_delay
with_delay(l, delay) == [l EXCEPT !.start = @ + delay]

\* CompoundLimiter::new
CompoundLimiter(left, right) ==
    [kind |-> "Compound", left |-> left, right |-> right]

\* Limiter::with
With(l, another) == CompoundLimiter(l, another)

\* Instant::elapsed at the time t: zero for an instant that is still ahead
InstantElapsed(instant, t) == IF t >= instant THEN t - instant ELSE 0

\* Mutant of ConcurrencyApply: the threshold itself does not wait.
ConcurrencyApply_Strict(l, status) ==
    IF status.operations > l.max_concurrency THEN Wait(l.wait_for)
    ELSE LimitNone

\* ConcurrencyLimiter::apply
ConcurrencyApply(l, status) ==
    IF status.operations >= l.max_concurrency THEN Wait(l.wait_for)
    ELSE LimitNone

\* Mutant of MaxOperationsApply: the maximum itself does not shut down.
MaxOperationsApply_Strict(l, status) ==
    IF status.total_operations > l.max_operations THEN Shutdown
    ELSE LimitNone

\* MaxOperationsLimiter::apply
MaxOperationsApply(l, status) ==
    IF status.total_operations >= l.max_operations THEN Shutdown
    ELSE LimitNone

\* MaxDurationLimiter::apply, called at the time t
MaxDurationApply(l, t) ==
    IF InstantElapsed(l.start, t) > l.max_duration THEN Shutdown
    ELSE LimitNone

RECURSIVE apply_RightFirst(_, _, _)
\* Mutant of apply: a compound limiter asks its right limiter first.
apply_RightFirst(l, status, t) ==
    CASE l.kind = "Concurrency" -> ConcurrencyApply(l, status)
      [] l.kind = "MaxOperations" -> MaxOperationsApply(l, status)
      [] l.kind = "MaxDuration" -> MaxDurationApply(l, t)
      [] l.kind = "Compound" ->
            LET limit == apply_RightFirst(l.right, status, t)
            IN  IF limit = LimitNone
                THEN apply_RightFirst(l.left, status, t)
                ELSE limit

RECURSIVE apply_WaitFirst(_, _, _)
\* Mutant of apply: a Wait of the right limiter replaces a Shutdown of the
\* left one.
apply_WaitFirst(l, status, t) ==
    CASE l.kind = "Concurrency" -> ConcurrencyApply(l, status)
      [] l.kind = "MaxOperations" -> MaxOperationsApply(l, status)
      [] l.kind = "MaxDuration" -> MaxDurationApply(l, t)
      [] l.kind = "Compound" ->
            LET left == apply_WaitFirst(l.left, status, t)
                right == apply_WaitFirst(l.right, status, t)
            IN  IF left = LimitNone \/ (left = Shutdown /\ right.kind = "Wait")
                THEN right
                ELSE left

RECURSIVE apply(_, _, _)
\* Limiter::apply(status), called at the time t; for a CompoundLimiter
\* (mod.rs:39-44) the right limiter is asked when the left one returns None.
apply(l, status, t) ==
    CASE l.kind = "Concurrency" -> ConcurrencyApply(l, status)
      [] l.kind = "MaxOperations" -> MaxOperationsApply(l, status)
      [] l.kind = "MaxDuration" -> MaxDurationApply(l, t)
      [] l.kind = "Compound" ->
            LET limit == apply(l.left, status, t)
            IN  IF limit = LimitNone THEN apply(l.right, status, t)
                ELSE limit

(***************************************************************************)
(* SpecLimiter: a chain of limiters made at time 0 and applied to statuses *)
(* as the clock advances.                                                  *)
(***************************************************************************)
MaxChain == 3             \* limiters in a chain
MaxOps == 3               \* the largest counter of a status
MaxLimitTime == 4         \* the clock stops here

\* The limiters the chains are made of, constructed at the time 0.
Limiters ==
    { ConcurrencyLimiter(2, 10),
      ConcurrencyLimiter(3, 20),
      MaxOperationsLimiter(2),
      MaxDurationLimiter(0, 2),
      with_delay(MaxDurationLimiter(0, 2), 1) }

RECURSIVE Chains(_)
\* a.with(b).with(c)... of at most n limiters
Chains(n) ==
    IF n = 1 THEN Limiters
    ELSE Chains(n - 1)
            \cup {With(chain, l) : chain \in Chains(n - 1), l \in Limiters}

\* What a RealtimeStatus reports.
Statuses ==
    [connections : 0 .. 1, operations : 1 .. MaxOps,
     total_operations : 1 .. MaxOps]

\* The clock advances by a millisecond, before the call that is followed.
LimiterTick ==
    /\ applied = None
    /\ now < MaxLimitTime
    /\ now' = now + 1
    /\ UNCHANGED <<measurerVars, timelineVars, libVars, execVars>>

\* limiter.apply(&status); one call is followed, apply changes nothing.
Apply(status) ==
    /\ applied = None
    /\ applied' = Some([status |-> status, at |-> now,
                        limit |-> apply(limiter, status, now)])
    /\ UNCHANGED <<now, measurerVars, timelineVars, libVars, scaleVars,
                   limiter, processVars, reportVars, sequenceVars,
                   runnerVars, driverVars, processorVars>>

LimiterInit ==
    /\ now = 0
    /\ MeasurerIdle
    /\ TimelineIdle
    /\ stores = <<>>
    /\ bucket = None
    /\ RunnerIdle
    /\ DriverIdle
    /\ ProcessorIdle
    /\ ScaleIdle
    /\ ProcessIdle
    /\ ReportIdle
    /\ SequenceIdle
    /\ limiter \in Chains(MaxChain)
    /\ applied = None

LimiterNext ==
    \/ LimiterTick
    \/ \E status \in Statuses : Apply(status)

SpecLimiter == LimiterInit /\ [][LimiterNext]_vars

(***************************************************************************)
(* SpecProcess: Limit::process (src/executor/limit/mod.rs) of one decision, *)
(* polled as the clock advances.  Times are in milliseconds.               *)
(***************************************************************************)
MaxWait == 2              \* the longest Wait processed
MaxProcessTime == 5       \* the clock stops here

\* The decisions processed.
ProcessLimits == {LimitNone, Shutdown} \cup {Wait(d) : d \in 0 .. MaxWait}

\* Mutant of process: a Wait returns at the first poll.
process_NeverSleeps(limit, t) ==
    IF limit.kind = "Shutdown"
    THEN {[pc |-> "done", deadline |-> t, result |-> Err("Interrupted")]}
    ELSE {[pc |-> "done", deadline |-> t, result |-> Unit]}

\* Limit::process, first poll at the time t, the outcomes it can have:
\* Wait(duration) suspends in sleep(duration).await; the sleep of a zero
\* duration is ready at the first poll when the timer has already processed
\* the tick of its deadline, and process returns Ok(()), else it suspends
\* as well and is woken by the timer.  Shutdown returns
\* Err(ErrorKind::Interrupted), None returns Ok(()).
process(limit, t) ==
    CASE limit.kind = "Wait" ->
            {[pc |-> "sleeping", deadline |-> t + limit.d,
              result |-> NoResult]}
                \cup (IF limit.d = 0
                      THEN {[pc |-> "done", deadline |-> t, result |-> Unit]}
                      ELSE {})
      [] limit.kind = "Shutdown" ->
            {[pc |-> "done", deadline |-> t, result |-> Err("Interrupted")]}
      [] limit.kind = "None" ->
            {[pc |-> "done", deadline |-> t, result |-> Unit]}

\* The clock advances by a millisecond.
ProcessTick ==
    /\ now < MaxProcessTime
    /\ now' = now + 1
    /\ UNCHANGED <<measurerVars, timelineVars, libVars, execVars>>

\* limit.process().await, up to its first suspension or its return
ProcessStart ==
    /\ proc.pc = "created"
    /\ \E polled \in process(proc.limit, now) :
           proc' = [proc EXCEPT
                       !.pc = polled.pc,
                       !.started = now,
                       !.deadline = polled.deadline,
                       !.suspended = IF polled.pc = "sleeping" THEN 1 ELSE 0,
                       !.finished = now,
                       !.result = polled.result]
    /\ UNCHANGED <<now, measurerVars, timelineVars, libVars, scaleVars,
                   limiterVars, reportVars, sequenceVars,
                   runnerVars, driverVars, processorVars>>

\* The timer wakes the future at or after the deadline of sleep; process
\* returns Ok(()).
ProcessResume ==
    /\ proc.pc = "sleeping"
    /\ now >= proc.deadline
    /\ proc' = [proc EXCEPT !.pc = "done", !.finished = now,
                            !.result = Unit]
    /\ UNCHANGED <<now, measurerVars, timelineVars, libVars, scaleVars,
                   limiterVars, reportVars, sequenceVars,
                   runnerVars, driverVars, processorVars>>

ProcessInit ==
    /\ now = 0
    /\ MeasurerIdle
    /\ TimelineIdle
    /\ stores = <<>>
    /\ bucket = None
    /\ RunnerIdle
    /\ DriverIdle
    /\ ProcessorIdle
    /\ ScaleIdle
    /\ LimiterIdle
    /\ ReportIdle
    /\ SequenceIdle
    /\ \E limit \in ProcessLimits :
          proc = [limit |-> limit, pc |-> "created", started |-> 0,
                  deadline |-> 0, suspended |-> 0, finished |-> 0,
                  result |-> NoResult]

ProcessNext ==
    \/ ProcessTick
    \/ ProcessStart
    \/ ProcessResume

SpecProcess == ProcessInit /\ [][ProcessNext]_vars

(***************************************************************************)
(* Counter and RealtimeReport (src/report/realtime.rs).  A Counter is an   *)
(* Arc<AtomicUsize>: its clones share one atomic, here an entry of         *)
(* counters.  Every fetch_add and fetch_sub is one atomic step; the steps  *)
(* of different threads interleave.  All steps are read-modify-write       *)
(* operations on one atomic each, so Ordering::Relaxed allows no outcome   *)
(* that an interleaving does not produce.                                  *)
(***************************************************************************)
COUNTER_STEP == 1

\* usize::MAX, of a target with 16-bit pointers: the code compares with it
\* and wraps around it, and depends on the width in no other way.
USIZE_MAX == 65535
USIZE_MIN == 0

\* AtomicUsize::fetch_add and fetch_sub wrap around; both return the value
\* before.  These are the values after.
fetch_add(v, step) == (v + step) % (USIZE_MAX + 1)
fetch_sub(v, step) == (v + (USIZE_MAX + 1) - step) % (USIZE_MAX + 1)

\* A call of a Counter method, or one atomic operation of its rollback.
CounterCall(counter, op) == <<counter, op>>

\* Mutant of ReporterBody: operation_finished takes the operation back from
\* the total as well.
ReporterBody_FinishedLowersTotal(method) ==
    CASE method = "operation_started" ->
            <<CounterCall("operations", "increment"),
              CounterCall("total_operations", "increment")>>
      [] method = "operation_finished" ->
            <<CounterCall("operations", "decrement"),
              CounterCall("total_operations", "decrement")>>
      [] method = "connection_created" ->
            <<CounterCall("connections", "increment")>>
      [] method = "connection_closed" ->
            <<CounterCall("connections", "decrement")>>

\* The Counter calls a RealtimeReporter method makes, in order.
ReporterBody(method) ==
    CASE method = "operation_started" ->
            <<CounterCall("operations", "increment"),
              CounterCall("total_operations", "increment")>>
      [] method = "operation_finished" ->
            <<CounterCall("operations", "decrement")>>
      [] method = "connection_created" ->
            <<CounterCall("connections", "increment")>>
      [] method = "connection_closed" ->
            <<CounterCall("connections", "decrement")>>

\* A test thread calls the Counter itself.
CounterBody(method) == <<CounterCall("counter", method)>>

\* What a thread does next is the head of its pending calls.  The atomic
\* operation of an increment is fetch_add and the value before decides about
\* the rollback: usize::MAX => fetch_sub.  A decrement is its mirror image.
\* The result is the value after and the atomic operation still to make.
increment(v) ==
    [value |-> fetch_add(v, COUNTER_STEP),
     rollback |-> IF v = USIZE_MAX THEN <<"fetch_sub">> ELSE <<>>]

\* Mutant of decrement: no rollback at 0.
decrement_Wraps(v) ==
    [value |-> fetch_sub(v, COUNTER_STEP), rollback |-> <<>>]

decrement(v) ==
    [value |-> fetch_sub(v, COUNTER_STEP),
     rollback |-> IF v = USIZE_MIN THEN <<"fetch_add">> ELSE <<>>]

\* One atomic operation op on the value v.
Atomic(op, v) ==
    CASE op = "increment" -> increment(v)
      [] op = "decrement" -> decrement(v)
      [] op = "fetch_add" ->
            [value |-> fetch_add(v, COUNTER_STEP), rollback |-> <<>>]
      [] op = "fetch_sub" ->
            [value |-> fetch_sub(v, COUNTER_STEP), rollback |-> <<>>]

\* The thread th makes the atomic operation at the head of its pending calls.
\* A method whose last operation this was is completed.
StepThread(t, th) ==
    LET head == Head(th.pending)
        counter == head[1]
        op == head[2]
        before == counters[counter]
        made == Atomic(op, before)
        rest == [c \in 1 .. Len(made.rollback) |->
                    CounterCall(counter, made.rollback[c])]
                \o Tail(th.pending)
        first == op \in {"increment", "decrement"}
    IN  /\ counters' = [counters EXCEPT ![counter] = made.value]
        /\ threads' = [threads EXCEPT ![t] =
              [call |-> th.call,
               pending |-> rest,
               done |-> IF rest = <<>>
                        THEN [th.done EXCEPT ![th.call] = @ + 1]
                        ELSE th.done,
               saturated |-> th.saturated \/ made.rollback # <<>>,
               last |-> IF th.last = None THEN None
                        ELSE IF first
                             THEN [op |-> op, before |-> before,
                                   after |-> made.value]
                             ELSE [th.last EXCEPT !.after = made.value]]]

\* The calls a thread has begun.
CallsBegun(th) ==
    LET Sum[ms \in SUBSET DOMAIN th.done] ==
            IF ms = {} THEN 0
            ELSE LET m == CHOOSE m \in ms : TRUE
                 IN  th.done[m] + Sum[ms \ {m}]
    IN  Sum[DOMAIN th.done] + IF th.pending = <<>> THEN 0 ELSE 1

\* The Counter calls of a method of a RealtimeReport or of a Counter.
MethodBody(method) ==
    IF method \in {"increment", "decrement"}
    THEN CounterBody(method)
    ELSE ReporterBody(method)

\* The thread t, between two calls, calls a method: it makes the first
\* atomic operation of the method.
Begin(t, method, max) ==
    /\ threads[t].pending = <<>>
    /\ CallsBegun(threads[t]) < max
    /\ StepThread(t, [threads[t] EXCEPT !.call = method,
                                        !.pending = MethodBody(method)])
    /\ UNCHANGED <<now, measurerVars, timelineVars, libVars, scaleVars,
                   limiterVars, processVars, origin, sequenceVars,
                   runnerVars, driverVars, processorVars>>

\* The thread t makes the next atomic operation of the call it is in.
Continue(t) ==
    /\ threads[t].pending # <<>>
    /\ StepThread(t, threads[t])
    /\ UNCHANGED <<now, measurerVars, timelineVars, libVars, scaleVars,
                   limiterVars, processVars, origin, sequenceVars,
                   runnerVars, driverVars, processorVars>>

\* The threads of the tests.
Threads == {1, 2}

(***************************************************************************)
(* SpecReport: a RealtimeReport made by default() and cloned to each       *)
(* thread; the threads call the RealtimeReporter methods.                  *)
(***************************************************************************)
MaxReportCalls == 3       \* calls per thread

ReporterMethods ==
    {"operation_started", "operation_finished",
     "connection_created", "connection_closed"}

OperationStarted(t) ==
    Begin(t, "operation_started", MaxReportCalls)

OperationFinished(t) ==
    Begin(t, "operation_finished", MaxReportCalls)

ConnectionCreated(t) ==
    Begin(t, "connection_created", MaxReportCalls)

ConnectionClosed(t) ==
    Begin(t, "connection_closed", MaxReportCalls)

ReportInit ==
    /\ now = 0
    /\ MeasurerIdle
    /\ TimelineIdle
    /\ stores = <<>>
    /\ bucket = None
    /\ RunnerIdle
    /\ DriverIdle
    /\ ProcessorIdle
    /\ ScaleIdle
    /\ LimiterIdle
    /\ ProcessIdle
    /\ SequenceIdle
    /\ origin = 0
    /\ counters = [c \in {"operations", "connections", "total_operations"}
                     |-> 0]
    /\ threads = [t \in Threads |->
                    [call |-> "", pending |-> <<>>,
                     done |-> [m \in ReporterMethods |-> 0],
                     saturated |-> FALSE, last |-> None]]

ReportNext ==
    \E t \in Threads :
        \/ OperationStarted(t)
        \/ OperationFinished(t)
        \/ ConnectionCreated(t)
        \/ ConnectionClosed(t)
        \/ Continue(t)

SpecReport == ReportInit /\ [][ReportNext]_vars

(***************************************************************************)
(* SpecCounter: a Counter made by default() or from a value and cloned to  *)
(* each thread; the threads call increment and decrement.                  *)
(***************************************************************************)
MaxCounterCalls == 3      \* calls per thread

CounterMethods == {"increment", "decrement"}

\* Counter::default() and Counter::from(value)
CounterStarts == {0, 1, USIZE_MAX - 1, USIZE_MAX}

Increment(t) ==
    Begin(t, "increment", MaxCounterCalls)

Decrement(t) ==
    Begin(t, "decrement", MaxCounterCalls)

CounterInit ==
    /\ now = 0
    /\ MeasurerIdle
    /\ TimelineIdle
    /\ stores = <<>>
    /\ bucket = None
    /\ RunnerIdle
    /\ DriverIdle
    /\ ProcessorIdle
    /\ ScaleIdle
    /\ LimiterIdle
    /\ ProcessIdle
    /\ SequenceIdle
    /\ origin \in CounterStarts
    /\ counters = [c \in {"counter"} |-> origin]
    /\ threads = [t \in Threads |->
                    [call |-> "", pending |-> <<>>,
                     done |-> [m \in CounterMethods |-> 0],
                     saturated |-> FALSE,
                     last |-> [op |-> "", before |-> 0, after |-> 0]]]

CounterNext ==
    \E t \in Threads :
        \/ Increment(t)
        \/ Decrement(t)
        \/ Continue(t)

SpecCounter == CounterInit /\ [][CounterNext]_vars

(***************************************************************************)
(* SequenceFuture (src/executor/future/sequence.rs) over the steps         *)
(* ClosureStep and NoopStep and their futures MeasuredFuture and           *)
(* NoopFuture.  Times are in milliseconds.                                 *)
(***************************************************************************)
\* ClosureStep::new(name, closure).  A closure is [returns, pending]: what
\* its future resolves to and how many polls of it return Poll::Pending
\* before.
ClosureStep(name, closure) ==
    [step |-> "closure", name |-> name, closure |-> closure]

\* NoopStep::new()
NoopStep == [step |-> "noop", name |-> "", closure |-> None]

\* The output of the future of a closure called with input: the closures of
\* the tests, |value| Ok(value + 2) and |_| Err(kind.into()).
CallClosure(closure, input) ==
    IF closure.returns = "add2" THEN Ok(input + 2) ELSE Err(closure.returns)

\* Mutant of EventFromResult: every error is of the kind Error.
EventFromResult_NoTimeout(name, from, to, res) ==
    [name |-> name, start |-> from, end |-> to,
     kind |-> IF res.ok THEN "Success" ELSE "Error"]

\* impl From<(&str, Instant, Instant, &Result<T>)> for Event
EventFromResult(name, from, to, res) ==
    [name |-> name, start |-> from, end |-> to,
     kind |-> IF res.ok THEN "Success"
              ELSE IF res.e = "TimedOut" THEN "Timeout" ELSE "Error"]

\* SequenceStep::new(first, second)
SequenceStep(first, second) ==
    [step |-> "sequence", name |-> "", closure |-> None,
     first |-> first, second |-> second]

\* EitherFuture::empty()
EitherEmpty == [type |-> "Empty", state |-> "Complete"]

\* SequenceFuture::new(events, value, first, second).  given, invoked,
\* launched and polls are a history of the future: the arguments it was made
\* with, the closure calls made inside it, the sides it has launched and the
\* polls made of it.
SequenceFuture(events, value, first, second) ==
    [type |-> "SequenceFuture", first |-> first, second |-> second,
     given |-> [events |-> events, value |-> value],
     args |-> Some([events |-> events, value |-> value]),
     kind |-> "Empty", future |-> EitherEmpty,
     invoked |-> <<>>, launched |-> <<>>, polls |-> 0, output |-> None]

\* ExecutionStep::execute: a ClosureStep calls its closure and wraps the
\* future in MeasuredFuture::new(name, future, events); a NoopStep makes
\* NoopFuture::new(input, events); a SequenceStep makes SequenceFuture::new
\* of clones of its steps.
execute(step, events, input) ==
    CASE step.step = "closure" ->
            [type |-> "MeasuredFuture", name |-> step.name, state |-> "Ready",
             events |-> events, start |-> 0,
             pending |-> step.closure.pending,
             result |-> CallClosure(step.closure, input)]
      [] step.step = "noop" ->
            [type |-> "NoopFuture", name |-> "", state |-> "Ready",
             events |-> events, start |-> 0, pending |-> 0,
             result |-> Ok(input)]
      [] step.step = "sequence" ->
            SequenceFuture(events, input, step.first, step.second)

\* The closure calls execute makes.
Invokes(step, input) ==
    IF step.step = "closure" THEN <<<<step.name, input>>>> ELSE <<>>

\* Mutant of start_timer: the timer keeps the time the future was made with.
start_timer_KeepsStart(f, t) == [f EXCEPT !.state = "Running"]

\* MeasuredFutureState::start_timer at the time t: Ready becomes Running
\* with Instant::now().
start_timer(f, t) == [f EXCEPT !.state = "Running", !.start = t]

\* Mutant of finish_timer: the event is put in front of the events.
finish_timer_PutsInFront(f, t) ==
    <<EventFromResult(f.name, f.start, t, f.result)>> \o f.events

\* MeasuredFutureState::finish_timer at the time t: the events with the
\* event of this future pushed.
finish_timer(f, t) ==
    Append(f.events, EventFromResult(f.name, f.start, t, f.result))

\* Mutant of LaunchFirst: the arguments are cloned, not taken.
LaunchFirst_KeepsArgs(s) ==
    IF s.args.some
    THEN [s EXCEPT
            !.kind = "Left",
            !.future = execute(s.first, s.args.v.events, s.args.v.value),
            !.invoked = @ \o Invokes(s.first, s.args.v.value),
            !.launched = Append(@, "Left")]
    ELSE s

\* if let Some((events, value)) = this.args.take() { this.future.set(
\* EitherFuture::left(this.first.execute(events, value))) }
LaunchFirst(s) ==
    IF s.args.some
    THEN [s EXCEPT
            !.args = None,
            !.kind = "Left",
            !.future = execute(s.first, s.args.v.events, s.args.v.value),
            !.invoked = @ \o Invokes(s.first, s.args.v.value),
            !.launched = Append(@, "Left")]
    ELSE s

\* Mutant of SequenceMatch: the output of the first step is returned.
SequenceMatch_StopsAfterFirst(kind, res) == "return"

\* The match of SequenceFuture::poll on the kind of the future polled and
\* its result: only (Left, Ok) goes on with the second step.
SequenceMatch(kind, res) ==
    IF kind = "Left" /\ res.ok THEN "continue" ELSE "return"

RECURSIVE PollFuture(_, _)
RECURSIVE SequenceReady(_, _, _, _)
RECURSIVE poll(_, _)

\* EitherFuture::poll of the future f at the time t, that is the poll of the
\* future inside: MeasuredFuture::poll, NoopFuture::poll or
\* SequenceFuture::poll.  The result is the future after the poll, its output
\* when it is ready, and the closure calls made by the poll.
PollFuture(f, t) ==
    CASE f.type = "Empty" ->
            [future |-> f, ready |-> TRUE, events |-> <<>>,
             result |-> Err("InvalidData"), invoked |-> <<>>]
      [] f.type = "NoopFuture" ->
            [future |-> [f EXCEPT !.state = "Complete"], ready |-> TRUE,
             events |-> f.events, result |-> f.result, invoked |-> <<>>]
      [] f.type = "MeasuredFuture" ->
            LET running == IF f.state = "Ready" THEN start_timer(f, t) ELSE f
            IN  IF running.pending > 0
                THEN [future |-> [running EXCEPT !.pending = @ - 1],
                      ready |-> FALSE, events |-> <<>>, result |-> NoResult,
                      invoked |-> <<>>]
                ELSE [future |-> [running EXCEPT !.state = "Complete",
                                                 !.events = <<>>],
                      ready |-> TRUE,
                      events |-> finish_timer(running, t),
                      result |-> running.result,
                      invoked |-> <<>>]
      [] f.type = "SequenceFuture" ->
            LET after == poll(f, t)
            IN  [future |-> after,
                 ready |-> after.output.some,
                 events |-> IF after.output.some THEN after.output.v.events
                            ELSE <<>>,
                 result |-> IF after.output.some THEN after.output.v.result
                            ELSE NoResult,
                 invoked |-> SubSeq(after.invoked, Len(f.invoked) + 1,
                                    Len(after.invoked))]

\* The SequenceFuture s with the ready output p of its future of the given
\* kind, after the second step is run or the output is returned.
SequenceReady(s, kind, p, t) ==
    IF SequenceMatch(kind, p.result) = "continue"
    THEN LET right == execute(s.second, p.events, p.result.v)
             q == PollFuture(right, t)
         IN  [s EXCEPT
                !.kind = "Right",
                !.future = q.future,
                !.invoked = @ \o Invokes(s.second, p.result.v) \o q.invoked,
                !.launched = Append(@, "Right"),
                !.output = IF q.ready
                           THEN Some([events |-> q.events,
                                      result |-> q.result])
                           ELSE None]
    ELSE [s EXCEPT !.output = Some([events |-> p.events,
                                    result |-> p.result])]

\* SequenceFuture::poll at the time t.
poll(s, t) ==
    LET taken == LaunchFirst(s)
        p == PollFuture(taken.future, t)
        polled == [taken EXCEPT !.future = p.future,
                                !.invoked = @ \o p.invoked,
                                !.polls = @ + 1]
    IN  IF p.ready
        THEN SequenceReady(polled, taken.kind, p, t)
        ELSE polled

(***************************************************************************)
(* SpecSequence: one SequenceFuture polled until it is ready, as the clock *)
(* advances.                                                               *)
(***************************************************************************)
MaxPending == 1           \* polls of a closure's future that are pending
MaxSequenceTime == 2      \* the clock stops here

\* The closures of the steps.
Closures ==
    [returns : {"add2", "Interrupted", "ConnectionReset", "TimedOut"},
     pending : 0 .. MaxPending]

FirstSteps == {NoopStep} \cup {ClosureStep("first_step", c) : c \in Closures}
SecondSteps == {NoopStep} \cup {ClosureStep("second_step", c) : c \in Closures}

\* The events and the value the sequence is executed with.
SequenceArgs ==
    {[events |-> <<>>, value |-> 40],
     [events |-> <<[name |-> "before", start |-> 0, end |-> 0,
                    kind |-> "Success"]>>, value |-> 40]}

SequenceTick ==
    /\ ~seq.output.some
    /\ now < MaxSequenceTime
    /\ now' = now + 1
    /\ UNCHANGED <<measurerVars, timelineVars, libVars, execVars>>

\* The task that awaits the sequence polls it.
SequencePoll ==
    /\ ~seq.output.some
    /\ seq' = poll(seq, now)
    /\ UNCHANGED <<now, measurerVars, timelineVars, libVars, scaleVars,
                   limiterVars, processVars, reportVars,
                   runnerVars, driverVars, processorVars>>

\* SequenceFuture::new(events, value, first, second)
SequenceInit ==
    /\ now = 0
    /\ MeasurerIdle
    /\ TimelineIdle
    /\ stores = <<>>
    /\ bucket = None
    /\ RunnerIdle
    /\ DriverIdle
    /\ ProcessorIdle
    /\ ScaleIdle
    /\ LimiterIdle
    /\ ProcessIdle
    /\ ReportIdle
    /\ \E first \in FirstSteps, second \in SecondSteps, args \in SequenceArgs :
          seq = SequenceFuture(args.events, args.value, first, second)

SequenceNext ==
    \/ SequenceTick
    \/ SequencePoll

SpecSequence == SequenceInit /\ [][SequenceNext]_vars

(***************************************************************************)
(* SpecChain: a chain of steps built with ExecutionStep::step, as the      *)
(* scenario builder does, executed and polled until it is ready.           *)
(***************************************************************************)
MaxChainSteps == 3        \* steps chained after the first NoopStep

\* The names of the steps, as in the example of ExecutionStep::step.
StepNames == <<"first", "second", "third", "last">>

\* The closures of the steps of a chain.
ChainClosures ==
    [returns : {"add2", "Interrupted", "TimedOut"}, pending : 0 .. MaxPending]

\* NoopStep::new().step(..).step(..): the chains of n steps after the first
\* NoopStep, each a closure step or, with SequenceStep::new, a NoopStep.
RECURSIVE StepChains(_)
StepChains(n) ==
    IF n = 0 THEN {NoopStep}
    ELSE {SequenceStep(chain, step) :
             chain \in StepChains(n - 1),
             step \in {NoopStep}
                      \cup {ClosureStep(StepNames[n], c) : c \in ChainClosures}}

\* step.execute(events, value)
ChainInit ==
    /\ now = 0
    /\ MeasurerIdle
    /\ TimelineIdle
    /\ stores = <<>>
    /\ bucket = None
    /\ RunnerIdle
    /\ DriverIdle
    /\ ProcessorIdle
    /\ ScaleIdle
    /\ LimiterIdle
    /\ ProcessIdle
    /\ ReportIdle
    /\ \E chain \in StepChains(MaxChainSteps), args \in SequenceArgs :
          seq = execute(chain, args.events, args.value)

ChainNext ==
    \/ SequenceTick
    \/ SequencePoll

SpecChain == ChainInit /\ [][ChainNext]_vars

(***************************************************************************)
(* Properties of the measurer, checked under SpecMeasurer.                 *)
(***************************************************************************)
IsTimeout(r) == ~r.ok /\ r.e.kind = "Timeout"
IsDynamic(r) == ~r.ok /\ r.e.kind = "Dynamic"

\* C1: every call of measure, try_measure or add_measurement that ran to
\* completion added exactly one entry to the aggregate, whatever its outcome:
\* after k completed calls the aggregate holds exactly k entries.
C1_OneEntryPerCompletedCall == Len(values) = completed

\* Two calls completed, the last one by a timeout, and two entries are held.
C1_Witness ==
    /\ completed = 2
    /\ pc = "idle"
    /\ IsTimeout(result)
    /\ Len(values) = 2

\* C2: a call that returned Timeout(T) recorded the latency T exactly, with
\* the error marker set.
C2_TimeoutRecordsTimeoutValue ==
    (pc = "idle" /\ timeout.some /\ result = Err(Timeout(timeout.v)))
        => (Last(values).latency = timeout.v /\ Last(values).error)

\* C3 as stated: measure returns the action's output as a success for every
\* measurer configuration.
C3_MeasureNeverFails ==
    (pc = "idle" /\ call.kind = "measure" /\ result # NoResult)
        => result = call.outcome

\* C3 amended: measure never returns a Dynamic error. It returns the action's
\* output as a success, except that with a timeout T configured and the
\* action still incomplete at the resolving poll it returns Timeout(T).
C3_MeasureFailsOnlyByTimeout ==
    (pc = "idle" /\ call.kind = "measure" /\ result # NoResult)
        => IF result.ok
           THEN result = call.outcome
           ELSE /\ timeout.some
                /\ result = Err(Timeout(timeout.v))
                /\ Last(values).latency >= timeout.v
                /\ Last(values).latency < call.need

\* measure has returned Timeout(T).
C3_Witness ==
    /\ pc = "idle"
    /\ call.kind = "measure"
    /\ timeout.some
    /\ result = Err(Timeout(timeout.v))

\* C4: a try_measure that returns without the timeout firing records one
\* entry whose latency is the time elapsed since the call started; for an
\* action returning Ok(v) the entry has no error marker and Ok(v) is
\* returned, for an action returning Err(e) the entry has the error marker
\* and Dynamic(e) is returned.
C4_TryMeasureOutcome ==
    [][ (completed' = completed + 1 /\ call'.kind = "try_measure"
            /\ ~IsTimeout(result'))
        => /\ Len(values') = Len(values) + 1
           /\ Last(values').metric = call'.metric
           /\ Last(values').latency = now - start'
           /\ IF call'.outcome.ok
              THEN result' = call'.outcome /\ ~Last(values').error
              ELSE /\ result' = Err(Dynamic(call'.outcome.e))
                   /\ Last(values').error ]_vars

\* try_measure returned the wrapped error of an action that failed after a
\* measurable time.
C4_Witness ==
    /\ pc = "idle"
    /\ call.kind = "try_measure"
    /\ result = Err(Dynamic("Other"))
    /\ Last(values).error
    /\ Last(values).latency > 1

(***************************************************************************)
(* Properties of the timeline aggregate, checked under Spec.               *)
(***************************************************************************)
Live == {a \in AggIds : alive[a] = "live"}

RECURSIVE SumLeafLen(_, _)
\* The samples held by the k-th leaf storage of the items of a timeline.
SumLeafLen(timeline, k) ==
    IF timeline = <<>> THEN 0
    ELSE LeafLen(Leaves(Head(timeline).storage)[k])
            + SumLeafLen(Tail(timeline), k)

\* C5: for an aggregate that was no merge target, the grand total returned by
\* flush() holds as many samples as the timeline items returned by flush()
\* hold together (in each storage the aggregate is made of).
C5_TotalLenIsSumOfItems ==
    (flushed.some /\ flushed.v.pure)
        => \A k \in 1 .. Len(Leaves(flushed.v.total.storage)) :
              LeafLen(Leaves(flushed.v.total.storage)[k])
                  = SumLeafLen(flushed.v.timeline, k)

\* flush() returned two timeline items and a total of two samples.
C5_Witness ==
    /\ flushed.some
    /\ flushed.v.pure
    /\ Len(flushed.v.timeline) = 2
    /\ \E k \in 1 .. Len(Leaves(flushed.v.total.storage)) :
          LeafLen(Leaves(flushed.v.total.storage)[k]) = 2

StrictlyIncreasing(timeline) ==
    \A i \in 1 .. Len(timeline) - 1 : timeline[i].time < timeline[i + 1].time

\* C6: the bucket keys of the timeline of every aggregate are strictly
\* increasing, after any add_entry and merge_into calls.
C6_KeysStrictlyIncreasing ==
    \A a \in Live : StrictlyIncreasing(aggs[a].timeline)

\* An aggregate recorded one entry, and a merge then inserted an item with a
\* smaller key before the item of that entry.
C6_Witness ==
    \E a \in Live :
        /\ ~pure[a]
        /\ Len(aggs[a].timeline) = 2
        /\ Len(hist[a]) = 1
        /\ hist[a][1].key = aggs[a].timeline[2].time

\* C7 as stated: the bucket key of the last timeline item is at most the time
\* elapsed since the epoch.
C7_LastKeyAtMostElapsed ==
    \A a \in Live :
        aggs[a].timeline # <<>> => Last(aggs[a].timeline).time <= now

\* C7 amended: the bucket key of the last timeline item is at most half a
\* window (rounded up to whole nanoseconds) above the time elapsed, because
\* window() rounds the elapsed time to the nearest boundary.
C7_LastKeyAtMostHalfWindowAhead ==
    \A a \in Live :
        aggs[a].timeline # <<>> =>
            Last(aggs[a].timeline).time
                <= now + (settings.window - settings.window \div 2)

\* The last key is ahead of the elapsed time, by the most the bound allows.
C7_Witness ==
    \E a \in Live :
        /\ aggs[a].timeline # <<>>
        /\ Last(aggs[a].timeline).time > now
        /\ Last(aggs[a].timeline).time
              = now + (settings.window - settings.window \div 2)

RECURSIVE DistinctKeys(_, _)
\* The distinct keys of the calls in h, in order of first occurrence, after
\* the keys in `seen`.
DistinctKeys(h, seen) ==
    IF h = <<>> THEN seen
    ELSE IF \E i \in 1 .. Len(seen) : seen[i] = Head(h).key
         THEN DistinctKeys(Tail(h), seen)
         ELSE DistinctKeys(Tail(h), Append(seen, Head(h).key))

RECURSIVE Replay(_, _, _)
\* The item made of a fresh item by the calls of h whose key is `key`.
Replay(item, h, key) ==
    IF h = <<>> THEN item
    ELSE IF Head(h).key # key THEN Replay(item, Tail(h), key)
         ELSE Replay([item EXCEPT
                        !.storage = StorageRecord(@, Head(h).metric,
                                                  Head(h).latency),
                        !.errors = @ + (IF Head(h).error THEN 1 ELSE 0)],
                     Tail(h), key)

\* C8: for an aggregate that was no merge target, the timeline has exactly
\* one item per distinct bucket key window() returned at the add_entry calls,
\* in order of occurrence, and each item holds exactly the values (and counts
\* the errors) of the calls made while its key was the current bucket,
\* starting from an empty storage and errors = 0.
C8_OneItemPerBucketInOrder ==
    \A a \in Live :
        pure[a] =>
            LET keys == DistinctKeys(hist[a], <<>>)
                timeline == aggs[a].timeline
            IN  /\ Len(timeline) = Len(keys)
                /\ \A i \in 1 .. Len(keys) :
                      LET fresh == NewItem(keys[i], StorageClone(proto), 0, 0)
                          expected == Replay(fresh, hist[a], keys[i])
                      IN  /\ timeline[i].time = keys[i]
                          /\ timeline[i].storage = expected.storage
                          /\ timeline[i].errors = expected.errors

\* Two entries were recorded in buckets that are not adjacent: the timeline
\* has two items and none for the bucket between them.
C8_Witness ==
    \E a \in Live :
        /\ pure[a]
        /\ Len(hist[a]) = 2
        /\ Len(aggs[a].timeline) = 2
        /\ aggs[a].timeline[2].time - aggs[a].timeline[1].time
              > settings.window

\* C9: the shared counter equals the number of live aggregates.
C9_CounterCountsLiveAggregates == users = Cardinality(Live)

\* C10: add_entry sets the user count of the current timeline item to the
\* counter value read at line 125 and the user count of the grand total to
\* the counter value read at line 127, whatever they were before.
C10_UsersIsSnapshot ==
    [][ \A a \in AggIds :
          /\ (~apc[a].some /\ apc'[a].some)
                => Last(aggs'[a].timeline).users = CounterCurrent(users)
          /\ (apc[a].some /\ ~apc'[a].some)
                => aggs'[a].total.users = CounterCurrent(users) ]_vars

\* The counter went down between two entries: the later item and the grand
\* total have the lower user count, the earlier item the higher.
C10_Witness ==
    \E a \in Live :
        /\ ~apc[a].some
        /\ Len(aggs[a].timeline) = 2
        /\ aggs[a].timeline[1].users > aggs[a].timeline[2].users
        /\ aggs[a].total.users = aggs[a].timeline[2].users

RECURSIVE SumErrors(_)
\* The error counts of the items of a timeline, added up.
SumErrors(timeline) ==
    IF timeline = <<>> THEN 0
    ELSE Head(timeline).errors + SumErrors(Tail(timeline))

\* The add_entry calls of h that passed an error.
ErrorCalls(h) == Cardinality({i \in 1 .. Len(h) : h[i].error})

\* C11: on an aggregate that was no merge target, the error counts of the
\* timeline items add up to the number of add_entry calls made with an error,
\* and so does the error count of the grand total (which trails by the call
\* in progress until line 127 has run): each call with an error adds exactly
\* one to both, a call without an error adds nothing.
C11_ErrorsCountErrorCalls ==
    \A a \in Live :
        pure[a] =>
            /\ SumErrors(aggs[a].timeline) = ErrorCalls(hist[a])
            /\ aggs[a].total.errors
                  = ErrorCalls(hist[a])
                      - (IF apc[a].some /\ apc[a].v.some THEN 1 ELSE 0)

\* Two calls were completed, one with an error and one without, into two
\* buckets: the total counts one error.
C11_Witness ==
    \E a \in Live :
        /\ pure[a]
        /\ ~apc[a].some
        /\ Len(hist[a]) = 2
        /\ Len(aggs[a].timeline) = 2
        /\ ErrorCalls(hist[a]) = 1
        /\ aggs[a].total.errors = 1

(***************************************************************************)
(* Properties of merge_into, checked under SpecMerge.                      *)
(***************************************************************************)
Keys(timeline) == {timeline[i].time : i \in 1 .. Len(timeline)}

\* The item of a timeline at a key it has.
ItemAt(timeline, k) ==
    timeline[CHOOSE i \in 1 .. Len(timeline) : timeline[i].time = k]

\* The samples a storage that is not combined holds for a metric.
LeafCount(s, m) == IF s.kind = "total" THEN HistLen(s.inner) ELSE MetricLen(s, m)

\* The per-metric sample counts of x are those of y and z together, in every
\* storage the items are made of.
CountsAddUp(x, y, z) ==
    \A j \in 1 .. Len(Leaves(x.storage)), m \in ReportMetric :
        LeafCount(Leaves(x.storage)[j], m)
            = LeafCount(Leaves(y.storage)[j], m)
                + LeafCount(Leaves(z.storage)[j], m)

\* What C12 says of the timeline `after` of the target of a merge, given the
\* timelines of the source and of the target before it.
Merged(source, target, after) ==
    /\ Keys(after) = Keys(source) \cup Keys(target)
    /\ StrictlyIncreasing(after)
    /\ \A k \in Keys(after) :
          LET x == ItemAt(after, k)
          IN  IF k \in Keys(source) /\ k \in Keys(target)
              THEN LET y == ItemAt(source, k)
                       z == ItemAt(target, k)
                   IN  /\ CountsAddUp(x, y, z)
                       /\ x.errors = y.errors + z.errors
                       /\ x.users = IF y.users > z.users THEN y.users
                                    ELSE z.users
              ELSE IF k \in Keys(source) THEN x = ItemAt(source, k)
                   ELSE x = ItemAt(target, k)

\* C12: after a.merge_into(b), for every bucket key: where both had an item,
\* b's item has the summed per-metric sample counts, the summed error count
\* and the larger user count; where only a had one, b has a's item unchanged
\* at its sorted position; b's other items are unchanged.
C12_MergeIntoPerBucket ==
    [][ \A a, b \in MergeIds :
          merge_into(a, b)
              => Merged(aggs[a].timeline, aggs[b].timeline,
                        aggs'[b].timeline) ]_vars

\* A merge met a bucket both aggregates had (its item now holds the samples
\* of both and the larger user count) and inserted a bucket only the source
\* had before it.
C12_Witness ==
    \E b \in MergeIds :
        /\ alive[b] = "live"
        /\ ~pure[b]
        /\ Len(hist[b]) = 1
        /\ Len(aggs[b].timeline) = 2
        /\ hist[b][1].key = aggs[b].timeline[2].time
        /\ aggs[b].timeline[2].users = 3
        /\ aggs[b].timeline[2].errors = 2
        /\ \E j \in 1 .. Len(Leaves(proto)) :
              LeafLen(Leaves(aggs[b].timeline[2].storage)[j]) = 2

AllLive == \A a \in MergeIds : alive[a] = "live"

\* C13: merging is commutative and associative. Of three live aggregates,
\* once a is merged into c, merging b into c as well gives the timeline that
\* merging b first and a second gives; and once a is merged into b, merging
\* b into c gives that same timeline.
C13_MergeCommutesAndAssociates ==
    [][ AllLive =>
          \A a, b, c \in MergeIds :
              (a # b /\ b # c /\ a # c) =>
                  LET A == aggs[a].timeline
                      B == aggs[b].timeline
                      C == aggs[c].timeline
                  IN  /\ merge_into(a, c) =>
                            MergeTimeline(B, aggs'[c].timeline)
                                = MergeTimeline(A, MergeTimeline(B, C))
                      /\ merge_into(a, b) =>
                            MergeTimeline(aggs'[b].timeline, C)
                                = MergeTimeline(B, MergeTimeline(A, C)) ]_vars

\* One aggregate was merged into another in a bucket both had, with
\* different counters, and the third aggregate has an item in that bucket
\* and in another one.
C13_Witness ==
    \E a, b, c \in MergeIds :
        /\ alive[a] = "gone" /\ alive[b] = "live" /\ alive[c] = "live"
        /\ ~pure[b] /\ pure[c]
        /\ Len(aggs[b].timeline) = 1
        /\ Len(hist[b]) = 1
        /\ aggs[b].timeline[1].errors = 1
        /\ \E j \in 1 .. Len(Leaves(proto)) :
              LeafLen(Leaves(aggs[b].timeline[1].storage)[j]) = 2
        /\ Len(aggs[c].timeline) = 2
        /\ aggs[c].timeline[1].time = aggs[b].timeline[1].time

\* C14: merge_into leaves the grand total of its target as it was: after
\* a.merge_into(b) the samples, the error count and the user count of b's
\* total are those of before, whatever a's total held.
C14_MergeKeepsTargetTotal ==
    [][ \A a, b \in MergeIds :
          merge_into(a, b) => aggs'[b].total = aggs[b].total ]_vars

\* After a merge the total of the target holds fewer samples and fewer
\* errors than its timeline: those of the source's total are nowhere.
C14_Witness ==
    \E b \in MergeIds :
        /\ alive[b] = "live"
        /\ ~pure[b]
        /\ aggs[b].total.errors < SumErrors(aggs[b].timeline)
        /\ \A j \in 1 .. Len(Leaves(proto)) :
              LeafLen(Leaves(aggs[b].total.storage)[j])
                  < SumLeafLen(aggs[b].timeline, j)

(***************************************************************************)
(* Properties of split, checked under SpecSplit.                           *)
(***************************************************************************)
RECURSIVE ReplayAll(_, _)
\* The storage made of `storage` by the calls of h.
ReplayAll(storage, h) ==
    IF h = <<>> THEN storage
    ELSE ReplayAll(StorageRecord(storage, Head(h).metric, Head(h).latency),
                   Tail(h))

\* What C15 says of one part of a split: `part` is the aggregate made of the
\* aggregate `whole`, recorded into by the calls h, for the storage `half` of
\* the prototype.
IsPartOf(part, whole, half, h) ==
    /\ Len(part.timeline) = Len(whole.timeline)
    /\ \A i \in 1 .. Len(whole.timeline) :
          LET x == part.timeline[i]
              y == whole.timeline[i]
          IN  /\ x.time = y.time
              /\ x.errors = y.errors
              /\ x.users = y.users
              /\ x.storage
                    = Replay(NewItem(y.time, StorageClone(half), 0, 0),
                             h, y.time).storage
    /\ part.total.time = whole.total.time
    /\ part.total.errors = whole.total.errors
    /\ part.total.users = whole.total.users
    /\ part.total.storage = ReplayAll(StorageClone(half), h)

\* C15: split() gives two aggregates whose timelines have the length of the
\* original and, position by position, its bucket keys, error counts and
\* user counts; the left one holds exactly the samples recorded into the
\* left storage and the right one those recorded into the right storage, and
\* so do the two grand totals.
C15_SplitUnzips ==
    [][ split("A", "L", "R") =>
          /\ IsPartOf(aggs'["L"], aggs["A"], proto.left, hist["A"])
          /\ IsPartOf(aggs'["R"], aggs["A"], proto.right, hist["A"]) ]_vars

\* An aggregate with two buckets and an error was split; the left storage
\* had dropped a value the right one kept.
C15_Witness ==
    /\ alive["L"] = "live" /\ alive["R"] = "live"
    /\ Len(aggs["L"].timeline) = 2
    /\ aggs["R"].timeline[2].errors = 1
    /\ aggs["R"].total.errors = 1
    /\ LeafLen(aggs["L"].total.storage) = 1
    /\ LeafLen(aggs["R"].total.storage) = 2

(***************************************************************************)
(* Properties of the storages, checked under SpecStorage.                  *)
(***************************************************************************)
\* The histogram a record of `metric` into the storage s (not combined)
\* goes to.
TargetHistogram(s, metric) ==
    IF s.kind = "total" THEN s.inner
    ELSE IF metric \in DOMAIN s.inner THEN s.inner[metric]
         ELSE s.proto

\* Every histogram of a storage made as `config` takes every value recorded.
Accepting(config) ==
    \A j \in 1 .. Len(Leaves(config)), input \in StoreInputs :
        Covers(TargetHistogram(Leaves(config)[j], input[1]), input[2])

\* C16: a combined storage, made of storages whose parts accept every value
\* recorded, holds after any record, merge and clone calls as many samples
\* in its left part as in its right part.
C16_CombinedPartsHoldTheSame ==
    \A i \in StoreIds :
        ( /\ IsStorage(i)
          /\ stores[i].value.kind = "combined"
          /\ \A c \in stores[i].made : Accepting(c) ) =>
            LeafLen(stores[i].value.left) = LeafLen(stores[i].value.right)

\* A combined storage with a limited left part that accepts every value
\* holds two samples in each part after a merge, next to an empty clone.
C16_Witness ==
    \E i, j, k \in StoreIds :
        /\ IsStorage(i) /\ stores[i].value.kind = "combined"
        /\ \A c \in stores[i].made : Accepting(c)
        /\ \E c \in stores[i].made : c.left.proto.limit.some
        /\ LeafLen(stores[i].value.left) = 2
        /\ LeafLen(stores[i].value.right) = 2
        /\ stores[j].value = Moved
        /\ IsStorage(k) /\ k # i /\ Held(stores[k].value) = 0
        /\ stores[k].made = stores[i].made

\* C17 as stated: every merge returns a storage that holds, for every metric,
\* the samples of both storages together, so that the counts do not depend
\* on the order and the grouping of the merges.
C17_MergePreservesCounts ==
    [][ \A i, j \in StoreIds :
          MergeStores(i, j) =>
              /\ stores'[i].value # Panicked
              /\ CountsAddUp([storage |-> stores'[i].value],
                             [storage |-> stores[i].value],
                             [storage |-> stores[j].value]) ]_vars

\* The per-metric sample counts of the storage `after` are those of `before`
\* with `added` more samples of `metric` in the part j.
CountsGrowBy(after, before, j, metric, added) ==
    \A m \in ReportMetric :
        LeafCount(Leaves(after)[j], m)
            = LeafCount(Leaves(before)[j], m)
                + (IF m = metric \/ Leaves(before)[j].kind = "total"
                   THEN added ELSE 0)

\* C18 as stated: a record of a value above the configured maximum of the
\* limited histogram it goes to leaves the sample counts unchanged.
C18_AboveMaxIsDropped ==
    [][ \A i \in StoreIds, input \in StoreInputs :
          RecordStore(i, input[1], input[2]) =>
              \A j \in 1 .. Len(Leaves(stores[i].value)) :
                  LET limit == TargetHistogram(Leaves(stores[i].value)[j],
                                               input[1]).limit
                  IN  (limit.some /\ input[2] > limit.v) =>
                          CountsGrowBy(stores'[i].value, stores[i].value,
                                       j, input[1], 0) ]_vars

\* C18, amended: a record never panics; a value that the buckets of the
\* limited histogram it goes to do not cover is dropped and leaves the
\* sample counts unchanged; every other value is stored, also after a drop
\* and also when it is above the configured maximum.  (A record that leaves
\* the storage as it was is a stuttering step.)
C18_UncoveredIsDropped ==
    [][ \A i \in StoreIds, input \in StoreInputs :
          ( /\ stores'[i] # stores[i]
            /\ \A k \in StoreIds \ {i} : stores'[k] = stores[k]
            /\ RecordStore(i, input[1], input[2]) ) =>
              /\ stores'[i].value # Panicked
              /\ \A j \in 1 .. Len(Leaves(stores[i].value)) :
                    LET target == TargetHistogram(
                                      Leaves(stores[i].value)[j], input[1])
                    IN  IF ~Covers(target, input[2])
                        THEN CountsGrowBy(stores'[i].value, stores[i].value,
                                          j, input[1], 0)
                        ELSE CountsGrowBy(stores'[i].value, stores[i].value,
                                          j, input[1], 1) ]_vars

\* A metric storage made with_limit(3, 1500) that dropped 2500 of the metric
\* Two, stored 1500 in the same histogram, and stored 2000 of the metric One.
C18_Witness ==
    \E i \in StoreIds :
        /\ IsStorage(i) /\ stores[i].value.kind = "metric"
        /\ stores[i].made = {MetricWithLimit(3, 1500).v}
        /\ DOMAIN stores[i].value.inner = {"One", "Two"}
        /\ stores[i].value.inner["Two"].counts = SetToBag({1500})
        /\ stores[i].value.inner["One"].counts = SetToBag({2000})

(***************************************************************************)
(* Properties of StartTime::window, checked under SpecWindow.              *)
(***************************************************************************)
\* C19: for a window w > 0, window(w) returns a multiple of w, and the upper
\* one of the two multiples of w the elapsed time is exactly halfway between.
C19_WindowIsMultipleHalfUp ==
    (bucket.some /\ bucket.v.window > 0) =>
        LET w == bucket.v.window
            e == bucket.v.elapsed
        IN  /\ bucket.v.result % w = 0
            /\ (2 * (e % w) = w) => bucket.v.result = (e \div w) * w + w

\* 6 ns elapsed, halfway between 4 ns and 8 ns, are in the window 8 ns.
C19_Witness ==
    /\ bucket.some
    /\ bucket.v.window = 4
    /\ bucket.v.elapsed = 6
    /\ bucket.v.result = 8

\* C20 as stated: for a window w > 0, window(w) is at most w/2 away from the
\* elapsed time.
C20_WindowIsNearest ==
    (bucket.some /\ bucket.v.window > 0) =>
        LET distance == IF bucket.v.result >= bucket.v.elapsed
                        THEN bucket.v.result - bucket.v.elapsed
                        ELSE bucket.v.elapsed - bucket.v.result
        IN  2 * distance <= bucket.v.window

(***************************************************************************)
(* Properties of AggregateScale, checked under SpecScale.                  *)
(***************************************************************************)
\* One unit of a scale, as a Duration.
ScaleUnit(scale) == value_to_duration(scale, 1)

\* Duration: a <= b
DurationLeq(a, b) == a.secs < b.secs \/ (a.secs = b.secs /\ a.nanos <= b.nanos)

\* Duration: a < b
DurationLess(a, b) == a.secs < b.secs \/ (a.secs = b.secs /\ a.nanos < b.nanos)

\* Duration::sub, for b <= a
DurationSub(a, b) ==
    IF a.nanos >= b.nanos THEN Duration(a.secs - b.secs, a.nanos - b.nanos)
    ELSE Duration(a.secs - b.secs - 1, a.nanos + NANOS_PER_SEC - b.nanos)

\* C21: a duration converted to a value and back is at most the duration and
\* less than one unit of the scale below it; a value converted to a duration
\* and back is the value.
C21_ScaleRoundTrip ==
    (conv.some /\ conv.v.done) =>
        IF conv.v.from = "duration"
        THEN /\ DurationLeq(conv.v.back, conv.v.of)
             /\ DurationLess(DurationSub(conv.v.of, conv.v.back),
                             ScaleUnit(conv.v.scale))
        ELSE conv.v.back = conv.v.of

\* 1 s 1999 ns is 1000001 microseconds, which is 1 s 1000 ns.
C21_Witness ==
    /\ conv.some
    /\ conv.v.done
    /\ conv.v.scale = "Microseconds"
    /\ conv.v.from = "duration"
    /\ conv.v.of = Duration(1, 1999)
    /\ conv.v.to = 1000001
    /\ conv.v.back = Duration(1, 1000)

(***************************************************************************)
(* Properties of the limiters, checked under SpecLimiter.                  *)
(***************************************************************************)
RECURSIVE Members(_)
\* The limiters of a chain, in chain order.
Members(l) ==
    IF l.kind = "Compound" THEN Members(l.left) \o Members(l.right)
    ELSE <<l>>

\* What each limiter of the chain in use returns, on its own, for the last
\* apply call.
Decisions ==
    [i \in 1 .. Len(Members(limiter)) |->
        apply(Members(limiter)[i], applied.v.status, applied.v.at)]

\* C22: a compound limiter returns the decision of its left limiter when that
\* is not None and of its right limiter otherwise, so a chain returns the
\* decision of the first limiter in chain order that is not None, and None
\* when there is none.
C22_FirstDecisionWins ==
    applied.some =>
        /\ limiter.kind = "Compound" =>
              LET left == apply(limiter.left, applied.v.status, applied.v.at)
                  right == apply(limiter.right, applied.v.status, applied.v.at)
              IN  applied.v.limit = IF left # LimitNone THEN left ELSE right
        /\ IF \E i \in DOMAIN Decisions : Decisions[i] # LimitNone
           THEN LET first == CHOOSE i \in DOMAIN Decisions :
                                /\ Decisions[i] # LimitNone
                                /\ \A j \in 1 .. i - 1 : Decisions[j] = LimitNone
                IN  applied.v.limit = Decisions[first]
           ELSE applied.v.limit = LimitNone

\* A chain of three whose first limiter returns None, whose second returns
\* Wait(20) and whose third returns Shutdown: the chain returns Wait(20).
C22_Witness ==
    /\ applied.some
    /\ Len(Members(limiter)) = 3
    /\ Decisions = <<LimitNone, Wait(20), Shutdown>>
    /\ applied.v.limit = Wait(20)

\* C23 as stated: when any limiter of the chain returns Shutdown, the chain
\* returns Shutdown.
C23_AnyShutdownWins ==
    (applied.some /\ \E i \in DOMAIN Decisions : Decisions[i] = Shutdown) =>
        applied.v.limit = Shutdown

\* C23, amended: when a limiter of the chain returns Shutdown and no limiter
\* before it in chain order returns Wait, the chain returns Shutdown; the
\* decision of a later limiter never replaces it.
C23_ShutdownWinsUnlessWaitBefore ==
    applied.some =>
        \A i \in DOMAIN Decisions :
            ( /\ Decisions[i] = Shutdown
              /\ \A j \in 1 .. i - 1 : Decisions[j].kind # "Wait" ) =>
                applied.v.limit = Shutdown

\* A chain whose first limiter returns Shutdown and whose later limiters
\* return Wait and None: the chain returns Shutdown.
C23_Witness ==
    /\ applied.some
    /\ Len(Members(limiter)) = 3
    /\ Decisions[1] = Shutdown
    /\ Decisions[2].kind = "Wait"
    /\ Decisions[3] = LimitNone
    /\ applied.v.limit = Shutdown

\* The statuses that differ from a status at most in the other fields.
SameField(status, field) == {s \in Statuses : s[field] = status[field]}

\* C24: ConcurrencyLimiter(max, wait) returns Wait(wait) exactly when
\* operations >= max and MaxOperationsLimiter(max) returns Shutdown exactly
\* when total_operations >= max, None otherwise, whatever the other fields
\* of the status.
C24_ThresholdsAreInclusive ==
    applied.some =>
        /\ limiter.kind = "Concurrency" =>
              /\ applied.v.limit =
                    IF applied.v.status.operations >= limiter.max_concurrency
                    THEN Wait(limiter.wait_for) ELSE LimitNone
              /\ \A s \in SameField(applied.v.status, "operations") :
                    apply(limiter, s, applied.v.at) = applied.v.limit
        /\ limiter.kind = "MaxOperations" =>
              /\ applied.v.limit =
                    IF applied.v.status.total_operations
                            >= limiter.max_operations
                    THEN Shutdown ELSE LimitNone
              /\ \A s \in SameField(applied.v.status, "total_operations") :
                    apply(limiter, s, applied.v.at) = applied.v.limit

\* ConcurrencyLimiter(2, 10) returns Wait(10) for two operations.
C24_Witness ==
    /\ applied.some
    /\ limiter = ConcurrencyLimiter(2, 10)
    /\ applied.v.status.operations = 2
    /\ applied.v.status.total_operations = 1
    /\ applied.v.limit = Wait(10)

\* C25: MaxDurationLimiter(max), made at the time 0, returns Shutdown exactly
\* when more than max has elapsed, and with_delay(d) exactly when more than
\* max + d has elapsed, None otherwise, whatever the status.
C25_MaxDurationIsStrict ==
    applied.some =>
        \A max \in 0 .. MaxLimitTime, d \in 0 .. MaxLimitTime :
            ( \/ d = 0 /\ limiter = MaxDurationLimiter(0, max)
              \/ limiter = with_delay(MaxDurationLimiter(0, max), d) ) =>
                /\ applied.v.limit =
                      IF applied.v.at > max + d THEN Shutdown ELSE LimitNone
                /\ \A s \in Statuses :
                      apply(limiter, s, applied.v.at) = applied.v.limit

\* MaxDurationLimiter(2).with_delay(1) returns None after 3 ms.
C25_Witness ==
    /\ applied.some
    /\ limiter = with_delay(MaxDurationLimiter(0, 2), 1)
    /\ applied.v.at = 3
    /\ applied.v.limit = LimitNone

(***************************************************************************)
(* Properties of Limit::process, checked under SpecProcess.                *)
(***************************************************************************)
\* C26 as stated: process of None returns Ok at once without suspending; of
\* Wait(d) it suspends once and returns Ok when at least d has elapsed; of
\* Shutdown it returns an Interrupted error at once without suspending.
C26_ProcessOutcome ==
    /\ proc.pc = "sleeping" => proc.limit.kind = "Wait"
    /\ proc.pc = "done" =>
          CASE proc.limit.kind = "None" ->
                  /\ proc.result = Unit
                  /\ proc.suspended = 0
                  /\ proc.finished = proc.started
            [] proc.limit.kind = "Wait" ->
                  /\ proc.result = Unit
                  /\ proc.suspended = 1
                  /\ proc.finished - proc.started >= proc.limit.d
            [] proc.limit.kind = "Shutdown" ->
                  /\ proc.result = Err("Interrupted")
                  /\ proc.suspended = 0
                  /\ proc.finished = proc.started

\* C26, amended: process of None returns Ok at once without suspending; of
\* Wait(d) with d > 0 it suspends once and returns Ok when at least d has
\* elapsed; of Wait(0) it returns Ok, at once without suspending or after
\* suspending once; of Shutdown it returns an Interrupted error at once
\* without suspending.
C26_ProcessOutcomeByDuration ==
    /\ proc.pc = "sleeping" => proc.limit.kind = "Wait"
    /\ proc.pc = "done" =>
          CASE proc.limit.kind = "None" ->
                  /\ proc.result = Unit
                  /\ proc.suspended = 0
                  /\ proc.finished = proc.started
            [] proc.limit.kind = "Wait" /\ proc.limit.d > 0 ->
                  /\ proc.result = Unit
                  /\ proc.suspended = 1
                  /\ proc.finished - proc.started >= proc.limit.d
            [] proc.limit.kind = "Wait" /\ proc.limit.d = 0 ->
                  /\ proc.result = Unit
                  /\ proc.suspended \in {0, 1}
                  /\ proc.finished >= proc.started
                  /\ proc.suspended = 0 => proc.finished = proc.started
            [] proc.limit.kind = "Shutdown" ->
                  /\ proc.result = Err("Interrupted")
                  /\ proc.suspended = 0
                  /\ proc.finished = proc.started

\* Wait(2), processed from 1 ms on, returned Ok at 3 ms.
C26_Witness ==
    /\ proc.pc = "done"
    /\ proc.limit = Wait(2)
    /\ proc.started = 1
    /\ proc.finished = 3
    /\ proc.result = Unit

(***************************************************************************)
(* Properties of RealtimeReport, checked under SpecReport.                 *)
(***************************************************************************)
\* No thread is inside a call.
Quiescent == \A t \in Threads : threads[t].pending = <<>>

\* The calls of a method that are completed, of all threads together.
Completed(method) ==
    LET Sum[ts \in SUBSET Threads] ==
            IF ts = {} THEN 0
            ELSE LET t == CHOOSE t \in ts : TRUE
                 IN  threads[t].done[method] + Sum[ts \ {t}]
    IN  Sum[Threads]

\* No call has met a counter at 0 or at the maximum.
AwayFromBounds == \A t \in Threads : ~threads[t].saturated

\* The method of the thread that takes the step.
ActingCalls == {threads'[t].call : t \in {u \in Threads : threads'[u] # threads[u]}}

\* C27: every step of operation_started, operation_finished,
\* connection_created and connection_closed changes only the counters of
\* its method, the total of operations never decreases, and when all calls
\* are completed and none of them met a counter at a bound, every clone
\* reads operations = started - finished, total_operations = started and
\* connections = created - closed, whatever the interleaving was.
C27_ReportCounts ==
    [][/\ counters'.total_operations >= counters.total_operations
       /\ counters'.total_operations # counters.total_operations =>
             /\ ActingCalls = {"operation_started"}
             /\ counters'.total_operations = counters.total_operations + 1
       /\ counters'.operations # counters.operations =>
             ActingCalls \subseteq {"operation_started", "operation_finished"}
       /\ counters'.connections # counters.connections =>
             ActingCalls \subseteq {"connection_created", "connection_closed"}
       /\ Quiescent' =>
             counters'.total_operations = Completed("operation_started")'
       /\ Quiescent' /\ AwayFromBounds' =>
             /\ Completed("operation_finished")'
                   <= Completed("operation_started")'
             /\ counters'.operations =
                   Completed("operation_started")'
                     - Completed("operation_finished")'
             /\ counters'.connections =
                   Completed("connection_created")'
                     - Completed("connection_closed")'
      ]_vars

\* One clone started three operations and another finished two of them.
C27_Witness ==
    /\ Quiescent
    /\ AwayFromBounds
    /\ threads[1].done["operation_started"] = 3
    /\ threads[2].done["operation_finished"] = 2
    /\ threads[2].done["connection_created"] = 1
    /\ counters.operations = 1
    /\ counters.total_operations = 3
    /\ counters.connections = 1

(***************************************************************************)
(* Properties of Counter, checked under SpecCounter.                       *)
(***************************************************************************)
\* The thread has made no call.
Untouched(t) == threads[t].call = ""

\* C28: when only one thread uses the counter, an increment at the maximum
\* leaves it at the maximum, a decrement at 0 leaves it at 0, and every
\* other increment or decrement changes it by exactly 1.
C28_CounterSaturates ==
    \A t \in Threads :
        LET last == threads[t].last
        IN  (/\ ~Untouched(t)
             /\ threads[t].pending = <<>>
             /\ \A u \in Threads \ {t} : Untouched(u))
            => /\ counters.counter = last.after
               /\ last.op = "increment" =>
                     last.after = IF last.before = USIZE_MAX
                                  THEN USIZE_MAX
                                  ELSE last.before + 1
               /\ last.op = "decrement" =>
                     last.after = IF last.before = USIZE_MIN
                                  THEN USIZE_MIN
                                  ELSE last.before - 1

\* An increment at the maximum and then a decrement, of one thread.
C28_Witness ==
    /\ origin = USIZE_MAX
    /\ Untouched(2)
    /\ threads[1].pending = <<>>
    /\ threads[1].done["increment"] = 2
    /\ threads[1].done["decrement"] = 1
    /\ threads[1].last = [op |-> "decrement", before |-> USIZE_MAX,
                          after |-> USIZE_MAX - 1]

\* C29: a counter made at 0, n increments of one thread and m >= n
\* decrements of another, all completed: the value is 0.
C29_NoUnderflow ==
    (/\ origin = 0
     /\ Quiescent
     /\ threads[1].done["decrement"] = 0
     /\ threads[2].done["increment"] = 0
     /\ threads[2].done["decrement"] >= threads[1].done["increment"])
    => counters.counter = 0

(***************************************************************************)
(* Properties of SequenceFuture, checked under SpecSequence.               *)
(***************************************************************************)
\* What a step resolves to for an input.
StepResult(step, input) ==
    IF step.step = "closure" THEN CallClosure(step.closure, input)
    ELSE Ok(input)

\* C30: when the first step resolves to an error, the closure of the second
\* step is never called, and the sequence resolves to that error with the
\* events it was given followed by the event of the first step and no event
\* of the second; when the first step resolves to Ok(v), the second step is
\* run on v and the sequence resolves to its result.
C30_SequenceShortCircuits ==
    LET l == StepResult(seq.first, seq.given.value)
        given == seq.given.events
        out == seq.output.v
    IN  IF ~l.ok
        THEN /\ \A i \in 1 .. Len(seq.invoked) :
                    seq.invoked[i][1] # "second_step"
             /\ seq.output.some =>
                   /\ out.result = l
                   /\ Len(out.events) = Len(given) + 1
                   /\ SubSeq(out.events, 1, Len(given)) = given
                   /\ out.events[Len(out.events)].name = "first_step"
                   /\ out.events[Len(out.events)].kind # "Success"
                   /\ \A i \in 1 .. Len(out.events) :
                         out.events[i].name # "second_step"
        ELSE seq.output.some =>
                /\ out.result = StepResult(seq.second, l.v)
                /\ seq.second.step = "closure" =>
                      /\ seq.invoked[Len(seq.invoked)] = <<"second_step", l.v>>
                      /\ out.events[Len(out.events)].name = "second_step"

\* The first step failed after a pending poll, with a closure as the second
\* step and an event before.
C30_Witness ==
    /\ seq.output.some
    /\ seq.first = ClosureStep("first_step",
                               [returns |-> "Interrupted", pending |-> 1])
    /\ seq.second.step = "closure"
    /\ seq.given.events # <<>>
    /\ seq.output.v.result = Err("Interrupted")
    /\ Len(seq.output.v.events) = 2
    /\ seq.output.v.events[2].end = 1

(***************************************************************************)
(* Properties of chains of steps, checked under SpecChain.                 *)
(***************************************************************************)
\* The closure and no-op steps of a step, in chain order.
RECURSIVE Flatten(_)
Flatten(step) ==
    IF step.step = "sequence"
    THEN Flatten(step.first) \o Flatten(step.second)
    ELSE <<step>>

\* What a chain of steps comes to on a value: the names of the closure steps
\* that run, in order, and the result; the steps after an error do not run.
RECURSIVE RunSteps(_, _, _)
RunSteps(steps, names, res) ==
    IF steps = <<>> \/ ~res.ok THEN [names |-> names, result |-> res]
    ELSE LET step == Head(steps)
         IN  IF step.step = "noop"
             THEN RunSteps(Tail(steps), names, res)
             ELSE RunSteps(Tail(steps), Append(names, step.name),
                           CallClosure(step.closure, res.v))

\* The steps of the sequence future, and what they come to on its value.
SeqSteps == Flatten(seq.first) \o Flatten(seq.second)
SeqRun == RunSteps(SeqSteps, <<>>, Ok(seq.given.value))

\* The closure steps among the steps.
ClosureSteps(steps) == {i \in 1 .. Len(steps) : steps[i].step = "closure"}

\* C31: the events returned by a chain are the events given, unchanged and
\* in order, followed by one event per closure step that ran, in chain
\* order; no-op steps add no event and pass the value on; when every step
\* succeeds there are as many new events as closure steps.
C31_EventsFollowTheChain ==
    seq.output.some =>
        LET out == seq.output.v
            given == seq.given.events
            new == SubSeq(out.events, Len(given) + 1, Len(out.events))
        IN  /\ Len(out.events) >= Len(given)
            /\ SubSeq(out.events, 1, Len(given)) = given
            /\ [i \in 1 .. Len(new) |-> new[i].name] = SeqRun.names
            /\ [i \in 1 .. Len(seq.invoked) |-> seq.invoked[i][1]]
                  = SeqRun.names
            /\ out.result = SeqRun.result
            /\ out.result.ok =>
                  Len(new) = Cardinality(ClosureSteps(SeqSteps))

\* A chain of two closure steps around a NoopStep, all succeeded, after an
\* event given.
C31_Witness ==
    /\ seq.output.some
    /\ seq.given.events # <<>>
    /\ seq.first.first.second.step = "closure"
    /\ seq.first.second.step = "noop"
    /\ seq.second.step = "closure"
    /\ seq.second.closure.pending = 1
    /\ seq.output.v.result = Ok(44)
    /\ Len(seq.output.v.events) = 3
    /\ seq.output.v.events[2].name = "first"
    /\ seq.output.v.events[3].name = "third"

(***************************************************************************)
(* Properties of the events of closure steps, checked under SpecSequence.  *)
(***************************************************************************)
\* The results of the closure steps that run, in order.
RECURSIVE RunResults(_, _, _)
RunResults(steps, results, res) ==
    IF steps = <<>> \/ ~res.ok THEN results
    ELSE LET step == Head(steps)
         IN  IF step.step = "noop"
             THEN RunResults(Tail(steps), results, res)
             ELSE LET r == CallClosure(step.closure, res.v)
                  IN  RunResults(Tail(steps), Append(results, r), r)

\* C32: the kind of the event a closure step appends is Success when the
\* result of the step is Ok, Timeout when it is an error of the kind
\* TimedOut and Error for every other error, and the result is returned as
\* it is.
C32_EventKindFollowsResult ==
    seq.output.some =>
        LET out == seq.output.v
            given == seq.given.events
            new == SubSeq(out.events, Len(given) + 1, Len(out.events))
            results == RunResults(SeqSteps, <<>>, Ok(seq.given.value))
        IN  /\ Len(new) = Len(results)
            /\ \A i \in 1 .. Len(new) :
                  /\ new[i].kind = "Success" <=> results[i].ok
                  /\ new[i].kind = "Timeout" <=>
                        ~results[i].ok /\ results[i].e = "TimedOut"
                  /\ new[i].kind = "Error" <=>
                        ~results[i].ok /\ results[i].e # "TimedOut"
            /\ results # <<>> => out.result = results[Len(results)]

\* The second step timed out after the first succeeded.
C32_Witness ==
    /\ seq.output.some
    /\ seq.first.step = "closure"
    /\ seq.second.step = "closure"
    /\ seq.output.v.result = Err("TimedOut")
    /\ Len(seq.output.v.events) = 2
    /\ seq.output.v.events[1].kind = "Success"
    /\ seq.output.v.events[2].kind = "Timeout"

(***************************************************************************)
(* Properties of a dropped measurement, checked under SpecMeasurer.        *)
(***************************************************************************)
\* C33: a measure or try_measure future that is dropped while it is
\* suspended records nothing; an entry is added only by the step in which
\* the call returns, add_measurement at once and a measured call when its
\* action has completed or its timeout has fired.
C33_DroppedCallRecordsNothing ==
    [][/\ (pc = "awaiting" /\ pc' = "idle" /\ result' = NoResult)
            => values' = values
       /\ values' # values =>
             /\ Len(values') = Len(values) + 1
             /\ completed' = completed + 1
             /\ pc' = "idle"
             /\ result' # NoResult
             /\ call'.kind # "add_measurement" =>
                   Resolved(timeout, call', now - start')
      ]_vars

\* A try_measure call was dropped after it had been suspended for a while,
\* and the aggregate is still empty.
C33_Witness ==
    /\ pc = "idle"
    /\ call.kind = "try_measure"
    /\ result = NoResult
    /\ completed = 0
    /\ values = <<>>
    /\ now > start

(***************************************************************************)
(* Properties of the polls of SequenceFuture, checked under SpecChain.     *)
(***************************************************************************)
\* The sequence futures alive: the one polled and those nested in it.
RECURSIVE Levels(_)
Levels(f) ==
    IF f.type = "SequenceFuture" THEN {f} \cup Levels(f.future) ELSE {}

\* The future has returned its output.
FutureComplete(f) ==
    IF f.type = "SequenceFuture" THEN f.output.some ELSE f.state = "Complete"

\* C34: a SequenceFuture launches its first step once, on its first poll,
\* with the arguments it then gives up; it launches its second step at most
\* once and only after the first resolved to Ok; no closure is called twice;
\* the child it holds is not complete while the sequence can still be
\* polled; and once it has resolved it does not change.
C34_LaunchesOnce ==
    [][/\ \A l \in Levels(seq') :
             /\ l.polls = 0 =>
                   l.launched = <<>> /\ l.args.some /\ l.kind = "Empty"
             /\ l.polls >= 1 =>
                   /\ ~l.args.some
                   /\ l.launched \in {<<"Left">>, <<"Left", "Right">>}
                   /\ l.kind = l.launched[Len(l.launched)]
             /\ l.kind = "Right" =>
                   RunSteps(Flatten(l.first), <<>>, Ok(l.given.value)).result.ok
             /\ \A i, j \in 1 .. Len(l.invoked) :
                   l.invoked[i][1] = l.invoked[j][1] => i = j
             /\ (l.polls >= 1 /\ ~l.output.some) => ~FutureComplete(l.future)
       /\ seq'.polls \in {seq.polls, seq.polls + 1}
       /\ seq.output.some => seq' = seq
      ]_vars

\* A chain of three closure steps resolved after pending polls: the outer
\* sequence launched both sides and was polled more than once.
C34_Witness ==
    /\ seq.output.some
    /\ seq.output.v.result = Ok(46)
    /\ seq.launched = <<"Left", "Right">>
    /\ seq.polls >= 3
    /\ Len(seq.invoked) = 3

(***************************************************************************)
(* Properties of the times of the events, checked under SpecChain.         *)
(***************************************************************************)
\* C39: every event of an execution of a chain starts no later than it
\* ends, and each event ends no later than the next one starts.
C39_EventsDoNotOverlap ==
    seq.output.some =>
        LET events == seq.output.v.events
            given == Len(seq.given.events)
        IN  /\ \A i \in given + 1 .. Len(events) :
                  events[i].start <= events[i].end
            /\ \A i \in given + 1 .. Len(events) - 1 :
                  events[i].end <= events[i + 1].start

\* Two steps that each took a millisecond, one after the other.
C39_Witness ==
    /\ seq.output.some
    /\ seq.given.events = <<>>
    /\ Len(seq.output.v.events) = 2
    /\ seq.output.v.events[1].start = 0
    /\ seq.output.v.events[1].end = 1
    /\ seq.output.v.events[2].start = 1
    /\ seq.output.v.events[2].end = 2

(***************************************************************************)
(* What the readers of a RealtimeReport see, checked under SpecReport.     *)
(***************************************************************************)
\* Counter::value, which operations(), connections() and total_operations()
\* return: a load of the atomic.
value(counter) == counters[counter]

\* The calls of a method that have been begun, of all threads together.
Begun(method) ==
    Completed(method)
        + Cardinality({t \in Threads : /\ threads[t].pending # <<>>
                                       /\ threads[t].call = method})

\* C36: whatever the interleaving of the calls of the threads, every value
\* a reader can load lies between 0 and the number of increments begun: a
\* wrapped value is never visible.
C36_NoWrapVisible ==
    /\ value("operations") \in 0 .. Begun("operation_started")
    /\ value("total_operations") \in 0 .. Begun("operation_started")
    /\ value("connections") \in 0 .. Begun("connection_created")

(***************************************************************************)
(* StartTime::window over time, checked under SpecWindow.                  *)
(***************************************************************************)
\* C38: of two calls of window with the same window size, the later one,
\* made at an elapsed time that is no smaller, returns a key that is no
\* smaller.
C38_WindowIsMonotone ==
    (/\ bucket.some
     /\ bucket.v.before.some
     /\ bucket.v.before.v.window = bucket.v.window
     /\ bucket.v.before.v.elapsed <= bucket.v.elapsed)
    => bucket.v.before.v.result <= bucket.v.result

\* A window of 4 ns asked for at 5 ns, rounded down, and at 6 ns, rounded up.
C38_Witness ==
    /\ bucket.some
    /\ bucket.v.before.some
    /\ bucket.v.window = 4
    /\ bucket.v.before.v = [window |-> 4, elapsed |-> 5, result |-> 4]
    /\ bucket.v.elapsed = 6
    /\ bucket.v.result = 8

(***************************************************************************)
(* Runner (src/runner/runner.rs).  The clones of a Runner each have their   *)
(* own events and share the reporter, here the FakeReporter of the tests:  *)
(* one atomic that operation_started adds 1 to and operation_finished      *)
(* takes 1 from.  Times are in milliseconds.                               *)
(***************************************************************************)
MaxRuns == 3              \* runs of all runners together
MaxRunnerTime == 3        \* the clock stops here

Runners == {1, 2}

\* The timeout of the runners, in milliseconds.
RunnerTimeout == 2

\* The activities of the tests: add_one, add_one_and_wait_10ms and
\* fail_operation, and an activity that fails with ErrorKind::TimedOut.
Activities ==
    { [need |-> 0, returns |-> "add_one"],
      [need |-> 3, returns |-> "add_one"],
      [need |-> 0, returns |-> "Other"],
      [need |-> 1, returns |-> "TimedOut"] }

\* usize::saturating_add
saturating_add(a, b) == IF a + b > USIZE_MAX THEN USIZE_MAX ELSE a + b

\* The states an activity is run with: that of the tests and, for the
\* add_one that returns at once, the largest usize.
RunStates(activity) ==
    IF activity.returns = "add_one" /\ activity.need = 0
    THEN {123, USIZE_MAX} ELSE {123}

\* activity(state), resolved: add_one returns state.saturating_add(1)
CallActivity(activity, state) ==
    IF activity.returns = "add_one" THEN Ok(saturating_add(state, 1))
    ELSE Err(activity.returns)

\* Runner::new(timeout, capacity, reporter), and Runner::clone
NewRunner ==
    [pc |-> "idle", events |-> <<>>, call |-> None, trace |-> <<>>,
     returned |-> <<>>, dropped |-> 0]

\* What timeout(self.timeout, activity(state)).await resolves to, `elapsed`
\* after the start, and the kind of the event run() pushes for it: the
\* activity is polled first, the deadline only when it is pending.
RunResult(max, c, elapsed) ==
    IF elapsed >= c.activity.need
    THEN LET res == CallActivity(c.activity, c.state)
         IN  [by |-> "activity", result |-> res,
              kind |-> IF res.ok THEN "Success" ELSE "Error"]
    ELSE [by |-> "timeout", result |-> Err("TimedOut"), kind |-> "Timeout"]

\* Mutant of RunReturn: the timeout returns before operation_finished.
RunReturn_TimeoutLeaves(rn, r, t) ==
    LET task == rn.tasks[r]
        c == task.call.v
        elapsed == t - c.start
        out == IF elapsed >= c.activity.need
               THEN [by |-> "activity",
                     result |-> IF c.activity.returns = "add_one"
                                THEN [ok |-> TRUE,
                                       v |-> IF c.state = USIZE_MAX
                                             THEN USIZE_MAX
                                             ELSE c.state + 1]
                                ELSE [ok |-> FALSE, e |-> c.activity.returns],
                     kind |-> IF c.activity.returns = "add_one"
                              THEN "Success" ELSE "Error"]
               ELSE [by |-> "timeout",
                     result |-> [ok |-> FALSE, e |-> "TimedOut"],
                     kind |-> "Timeout"]
        left == out.by = "timeout"
    IN  [rn EXCEPT
           !.operations = IF left THEN @
                          ELSE (@ + 65536 - 1) % 65536,
           !.finished = IF left THEN @ ELSE @ + 1,
           !.tasks[r] =
               [task EXCEPT
                  !.pc = "idle",
                  !.events = Append(@, [name |-> c.name, start |-> c.start,
                                        end |-> t, kind |-> out.kind]),
                  !.trace = @ \o (IF left THEN <<"push">>
                                  ELSE <<"push", "operation_finished">>),
                  !.returned = Append(@, out)]]

\* Runner::run from the poll that resolves the timeout to the return (lines
\* 74-92), at the time t: the event is pushed, then operation_finished is
\* called.
RunReturn(rn, r, t) ==
    LET task == rn.tasks[r]
        c == task.call.v
        out == RunResult(rn.timeout, c, t - c.start)
    IN  [rn EXCEPT
           !.operations = fetch_sub(@, 1),
           !.finished = @ + 1,
           !.tasks[r] =
               [task EXCEPT
                  !.pc = "idle",
                  !.events = Append(@, [name |-> c.name, start |-> c.start,
                                        end |-> t, kind |-> out.kind]),
                  !.trace = @ \o <<"push", "operation_finished">>,
                  !.returned = Append(@, out)]]

\* The timeout of run() has resolved: the activity is ready or the deadline
\* has passed.
RunResolved(max, c, elapsed) ==
    elapsed >= c.activity.need \/ elapsed >= max

\* Runner::run(name, activity, state), first poll (lines 70-74): start is
\* taken, operation_started is called and the activity is polled under the
\* timeout; an activity that is ready at once runs to the return.
Run(r, name, activity, state) ==
    /\ runner.tasks[r].pc = "idle"
    /\ runner.started < MaxRuns
    /\ LET c == [name |-> name, activity |-> activity, state |-> state,
                 start |-> now]
           polled ==
               [runner EXCEPT
                  !.operations = fetch_add(@, 1),
                  !.started = @ + 1,
                  !.tasks[r] =
                      [@ EXCEPT !.pc = "awaiting",
                                !.call = Some(c),
                                !.trace = <<"operation_started",
                                            "activity">>]]
       IN  runner' = IF RunResolved(runner.timeout, c, 0)
                     THEN RunReturn(polled, r, now)
                     ELSE polled
    /\ UNCHANGED <<now, measurerVars, timelineVars, libVars, scaleVars,
                   limiterVars, processVars, reportVars, sequenceVars,
                   driverVars, processorVars>>

\* A later poll of run(), once the activity or the deadline is due.
RunResume(r) ==
    /\ runner.tasks[r].pc = "awaiting"
    /\ RunResolved(runner.timeout, runner.tasks[r].call.v,
                   now - runner.tasks[r].call.v.start)
    /\ runner' = RunReturn(runner, r, now)
    /\ UNCHANGED <<now, measurerVars, timelineVars, libVars, scaleVars,
                   limiterVars, processVars, reportVars, sequenceVars,
                   driverVars, processorVars>>

\* The future of run() is dropped while it is suspended at line 74, with
\* its locals.
RunDrop(r) ==
    /\ runner.tasks[r].pc = "awaiting"
    /\ runner' = [runner EXCEPT !.tasks[r] =
                    [@ EXCEPT !.pc = "idle", !.call = None,
                              !.dropped = @ + 1]]
    /\ UNCHANGED <<now, measurerVars, timelineVars, libVars, scaleVars,
                   limiterVars, processVars, reportVars, sequenceVars,
                   driverVars, processorVars>>

\* The clock advances by a millisecond.
RunnerTick ==
    /\ now < MaxRunnerTime
    /\ now' = now + 1
    /\ UNCHANGED <<measurerVars, timelineVars, libVars, execVars>>

\* Runner::new(Duration::from_millis(2), 5, FakeReporter::default()), cloned
\* once.
RunnerInit ==
    /\ now = 0
    /\ MeasurerIdle
    /\ TimelineIdle
    /\ stores = <<>>
    /\ bucket = None
    /\ ScaleIdle
    /\ LimiterIdle
    /\ ProcessIdle
    /\ ReportIdle
    /\ SequenceIdle
    /\ DriverIdle
    /\ ProcessorIdle
    /\ runner = [timeout |-> RunnerTimeout, operations |-> 0, started |-> 0,
                 finished |-> 0, tasks |-> [r \in Runners |-> NewRunner]]

RunnerNext ==
    \/ RunnerTick
    \/ \E r \in Runners, activity \in Activities :
          \E state \in RunStates(activity) : Run(r, "default", activity, state)
    \/ \E r \in Runners : RunResume(r)
    \/ \E r \in Runners : RunDrop(r)

SpecRunner == RunnerInit /\ [][RunnerNext]_vars

(***************************************************************************)
(* Properties of Runner::run, checked under SpecRunner.                    *)
(***************************************************************************)
\* The runs of all runners that have returned, and those dropped or still
\* suspended.
RunsReturned ==
    LET Sum[rs \in SUBSET Runners] ==
            IF rs = {} THEN 0
            ELSE LET r == CHOOSE r \in rs : TRUE
                 IN  Len(runner.tasks[r].returned) + Sum[rs \ {r}]
    IN  Sum[Runners]

RunsCut ==
    LET Sum[rs \in SUBSET Runners] ==
            IF rs = {} THEN 0
            ELSE LET r == CHOOSE r \in rs : TRUE
                 IN  runner.tasks[r].dropped
                        + (IF runner.tasks[r].pc = "awaiting" THEN 1 ELSE 0)
                        + Sum[rs \ {r}]
    IN  Sum[Runners]

\* C35: a run that has returned has called operation_started, then polled
\* the activity, then pushed one event, then called operation_finished; the
\* events of a runner are those of its returned runs, of the kind Success
\* for the activity's Ok, Error for the activity's error and Timeout for the
\* timeout; the reporter was told one start for every run begun and one
\* finish for every run returned, and when every run begun has returned the
\* active operations are what they were before.
C35_RunReportsOnce ==
    /\ \A r \in Runners :
          LET task == runner.tasks[r]
          IN  /\ (task.pc = "idle" /\ task.call.some)
                 => task.trace = <<"operation_started", "activity", "push",
                                   "operation_finished">>
              /\ Len(task.events) = Len(task.returned)
              /\ \A i \in 1 .. Len(task.returned) :
                    task.events[i].kind =
                        CASE task.returned[i].by = "timeout" -> "Timeout"
                          [] task.returned[i].result.ok -> "Success"
                          [] OTHER -> "Error"
    /\ runner.finished = RunsReturned
    /\ runner.started = RunsReturned + RunsCut
    /\ RunsCut = 0 => runner.operations = 0

\* One runner has returned a success and a timeout, the other an error of
\* the activity, and no run is cut short.
C35_Witness ==
    /\ RunsCut = 0
    /\ Len(runner.tasks[1].returned) = 2
    /\ runner.tasks[1].returned[1].result.ok
    /\ runner.tasks[1].returned[2].by = "timeout"
    /\ Len(runner.tasks[2].returned) = 1
    /\ runner.tasks[2].returned[1].by = "activity"
    /\ ~runner.tasks[2].returned[1].result.ok
    /\ runner.operations = 0

(***************************************************************************)
(* AggregateEventProcessor (src/report/aggregate.rs).  Instants and        *)
(* Durations are whole microseconds, Instants counted from one origin of   *)
(* the clock.  A histogram is its bounds and the bag of the values         *)
(* recorded in it.  `processor` holds the processors built, None for one   *)
(* that was moved into a merge.                                            *)
(***************************************************************************)
MaxEvents == 2            \* events processed by all processors together

ProcessorIds == {"root", "other"}

\* The significant figures of the latency histograms.
LatencySigFig == 4

\* Duration::as_millis and Duration::as_micros, of a whole number of
\* microseconds
as_millis(duration) == duration \div 1000
as_micros(duration) == duration

\* Histogram::<u64>::new_with_bounds(low, high, sigfig) for low = 1, where a
\* unit is one count: the buckets cover every value below the first
\* power-of-two multiple of the sub-bucket count that is above `high`
\* (auto-resize is off).
new_with_bounds(low, high, sigfig) ==
    IF low < 1 THEN Err("LowIsZero")
    ELSE IF high < 2 * low THEN Err("HighLessThanTwiceLow")
    ELSE IF sigfig > 5 THEN Err("SigFigExceedsMax")
    ELSE Ok([low |-> low, high |-> high, sigfig |-> sigfig,
             untrackable |-> Pow2AtLeast(Pow2AtLeast(1, 2 * 10^sigfig),
                                         high + 1),
             counts |-> EmptyBag])

\* Histogram::record
record(h, v) ==
    IF v >= h.untrackable THEN Err("ValueOutOfRangeResizeDisabled")
    ELSE Ok([h EXCEPT !.counts = @ (+) SetToBag({v})])

\* Histogram::add(source): an Err, and the histogram as it was, when the
\* largest value of the source is one the buckets do not cover.
add(h, source) ==
    IF \E v \in BagToSet(source.counts) : v >= h.untrackable
    THEN Err("OtherAddendValueExceedsRange")
    ELSE Ok([h EXCEPT !.counts = @ (+) source.counts])

\* DurationBucket::as_duration_bucket for Instant (time/instant.rs).
\* `*self - *origin` is the saturating difference of two Instants: zero
\* when `time` is before `reference`.  The code computes in nanoseconds.
\* The model's Instants and Durations are whole microseconds, so every
\* nanosecond figure of the code is a multiple of 1000 and bucket_nanos / 2
\* a multiple of 500: latency_nanos, bucket_nanos and remainder are counted
\* here in units of 500 ns, which loses nothing, and the result is turned
\* back into microseconds as Duration::from_nanos does.
as_duration_bucket(time, reference, bucket_size) ==
    LET latency_nanos == 2 * (IF time > reference THEN time - reference
                              ELSE 0)
        bucket_nanos == 2 * bucket_size
        buckets == latency_nanos \div bucket_nanos
        remainder == latency_nanos % bucket_nanos
    IN  (buckets * bucket_nanos
           + (IF remainder < bucket_nanos \div 2 THEN 0 ELSE bucket_nanos))
        \div 2

\* AggregateEntry::default
AggregateEntry == [started |-> 0, success |-> 0, timeout |-> 0, error |-> 0]

\* AggregateEntry::merge
EntryMerge(entry, other) ==
    [started |-> entry.started + other.started,
     success |-> entry.success + other.success,
     timeout |-> entry.timeout + other.timeout,
     error |-> entry.error + other.error]

\* AggregateEventProcessorBuilder::new().with_time(time_reference)
\*     .with_span(span).with_max_latency(max_latency).build(): the maximum
\* is kept in whole milliseconds.
BuildProcessor(max_latency, span, time_reference) ==
    [latencies |-> <<>>, timeline |-> <<>>, span |-> span,
     time_reference |-> time_reference,
     max_latency |-> as_millis(max_latency),
     given |-> max_latency, processed |-> 0, panicked |-> FALSE,
     last |-> None]

\* find_event_by_instant(name, time) followed by the record_* call `field`
\* on the entry: the entry is made by default when it is not there.
RecordEvent(p, name, time, field) ==
    LET key == <<name, as_duration_bucket(time, p.time_reference, p.span)>>
        entry == IF key \in DOMAIN p.timeline THEN p.timeline[key]
                 ELSE AggregateEntry
    IN  [p EXCEPT !.timeline =
            [k \in DOMAIN p.timeline \cup {key} |->
                IF k = key THEN [entry EXCEPT ![field] = @ + 1]
                ELSE p.timeline[k]]]

\* The map `latencies` with the histogram h under `name`.
WithLatency(latencies, name, h) ==
    [n \in DOMAIN latencies \cup {name} |->
        IF n = name THEN h ELSE latencies[n]]

\* AggregateEventProcessor::store_latency: both results are unwrapped, an Err
\* panics.  A histogram that was not there is in the map before the value
\* is recorded.  `*end - *start` is the saturating difference of two
\* Instants: zero when the end is before the start.
store_latency(p, name, from, to) ==
    LET duration == IF to > from THEN to - from ELSE 0
        made == IF name \in DOMAIN p.latencies THEN Ok(p.latencies[name])
                ELSE new_with_bounds(1, p.max_latency, LatencySigFig)
        recorded == record(made.v, as_micros(duration))
    IN  IF ~made.ok THEN [p EXCEPT !.panicked = TRUE]
        ELSE IF ~recorded.ok
        THEN [p EXCEPT !.panicked = TRUE,
                       !.latencies = WithLatency(@, name, made.v)]
        ELSE [p EXCEPT !.latencies = WithLatency(@, name, recorded.v)]

\* process_success, process_error, process_timeout
process_event(p, kind, name, from, to) ==
    LET begun == RecordEvent(p, name, from, "started")
        ended == RecordEvent(begun, name, to, kind)
        stored == store_latency(ended, name, from, to)
    IN  [stored EXCEPT !.processed = @ + 1,
                       !.last = Some([kind |-> kind, name |-> name,
                                      start |-> from, end |-> to])]

\* The first part of EventProcessor::merge: every entry of the other
\* timeline is merged into the entry of its key, made by default when it is
\* not there.
MergeProcessorTimeline(timeline, other) ==
    [k \in DOMAIN timeline \cup DOMAIN other |->
        IF k \notin DOMAIN other THEN timeline[k]
        ELSE EntryMerge(IF k \in DOMAIN timeline THEN timeline[k]
                        ELSE AggregateEntry,
                        other[k])]

RECURSIVE MergeLatencies(_, _, _)
\* The second part of EventProcessor::merge, with the histograms of the
\* other processor taken in the order `names`: a histogram is added to the
\* one of its name and the result unwrapped, or inserted when the name has
\* none; an Err ends the merge with the histograms merged so far.
MergeLatencies(latencies, other, names) ==
    IF names = <<>> THEN Ok(latencies)
    ELSE LET name == Head(names)
         IN  IF name \in DOMAIN latencies
             THEN LET added == add(latencies[name], other[name])
                  IN  IF added.ok
                      THEN MergeLatencies(WithLatency(latencies, name, added.v),
                                          other, Tail(names))
                      ELSE [ok |-> FALSE, v |-> latencies]
             ELSE MergeLatencies(WithLatency(latencies, name, other[name]),
                                 other, Tail(names))

\* The orders a HashMap of the given names may be iterated in.
IterationOrders(names) ==
    {order \in [1 .. Cardinality(names) -> names] :
        \A a, b \in 1 .. Cardinality(names) : a # b => order[a] # order[b]}

\* EventProcessor::merge for AggregateEventProcessor
merge(p, other, names) ==
    LET merged == MergeLatencies(p.latencies, other.latencies, names)
    IN  [p EXCEPT !.timeline = MergeProcessorTimeline(@, other.timeline),
                  !.latencies = merged.v,
                  !.panicked = ~merged.ok,
                  !.processed = @ + other.processed,
                  !.last = None]

\* The names of the events, their start and their latencies, and the
\* Instants they end at: the start and a latency, or an Instant before the
\* start.
EventNames == {"user1", "user2"}
EventStart == 10000
EventLatencies == {0, 1000, 28000, 65535, 65536, 60000000}
EventEnds ==
    {EventStart + latency : latency \in EventLatencies} \cup {5000}

\* What the processors are built with, as <<max_latency, span,
\* time_reference>>: the defaults of the builder (60 s, 50 ms) with the
\* clock's origin as the reference, a maximum of 1 ms and of 100 ms, and a
\* span of 3 microseconds with a reference that is after the start and
\* the end of some of the events.
Builds ==
    {<<60000000, 50000, 0>>, <<1000, 50000, 0>>, <<100000, 50000, 0>>,
     <<60000000, 3, 20001>>}

IsBuilt(i) == processor[i] # None
NoProcessorPanic == \A i \in ProcessorIds : IsBuilt(i) => ~processor[i].panicked

RECURSIVE Processed(_)
\* The events processed by the processors of S together
Processed(S) ==
    IF S = {} THEN 0
    ELSE LET i == CHOOSE x \in S : TRUE
         IN  (IF IsBuilt(i) THEN processor[i].processed ELSE 0)
                + Processed(S \ {i})

ProcessEvent(i, kind, name, end) ==
    /\ NoProcessorPanic
    /\ IsBuilt(i)
    /\ Processed(ProcessorIds) < MaxEvents
    /\ processor' = [processor EXCEPT
                        ![i] = process_event(@, kind, name, EventStart,
                                             end)]
    /\ UNCHANGED <<now, measurerVars, timelineVars, libVars, scaleVars,
                   limiterVars, processVars, reportVars, sequenceVars,
                   runnerVars, driverVars>>

process_success ==
    \E i \in ProcessorIds, name \in EventNames, end \in EventEnds :
        ProcessEvent(i, "success", name, end)

process_error ==
    \E i \in ProcessorIds, name \in EventNames, end \in EventEnds :
        ProcessEvent(i, "error", name, end)

process_timeout ==
    \E i \in ProcessorIds, name \in EventNames, end \in EventEnds :
        ProcessEvent(i, "timeout", name, end)

\* processor[i].merge(processor[j]): the other processor is moved into the
\* call.
MergeProcessors(i, j) ==
    /\ NoProcessorPanic
    /\ i # j
    /\ IsBuilt(i) /\ IsBuilt(j)
    /\ \E names \in IterationOrders(DOMAIN processor[j].latencies) :
          processor' = [processor EXCEPT
                           ![i] = merge(@, processor[j], names),
                           ![j] = None]
    /\ UNCHANGED <<now, measurerVars, timelineVars, libVars, scaleVars,
                   limiterVars, processVars, reportVars, sequenceVars,
                   runnerVars, driverVars>>

\* processor[j] = AggregateEventProcessorBuilder::new().with_time(..)
\*     .with_span(..).with_max_latency(..).build(), into a variable whose
\* processor was moved
NewProcessor(j, config) ==
    /\ NoProcessorPanic
    /\ processor[j] = None
    /\ processor' = [processor EXCEPT
                        ![j] = BuildProcessor(config[1], config[2], config[3])]
    /\ UNCHANGED <<now, measurerVars, timelineVars, libVars, scaleVars,
                   limiterVars, processVars, reportVars, sequenceVars,
                   runnerVars, driverVars>>

ProcessorInit ==
    /\ now = 0
    /\ MeasurerIdle
    /\ TimelineIdle
    /\ stores = <<>>
    /\ bucket = None
    /\ ScaleIdle
    /\ LimiterIdle
    /\ ProcessIdle
    /\ ReportIdle
    /\ SequenceIdle
    /\ RunnerIdle
    /\ DriverIdle
    /\ \E given \in [ProcessorIds -> Builds] :
          processor = [i \in ProcessorIds |->
                          BuildProcessor(given[i][1], given[i][2],
                                         given[i][3])]

ProcessorNext ==
    \/ process_success
    \/ process_error
    \/ process_timeout
    \/ \E i, j \in ProcessorIds : MergeProcessors(i, j)
    \/ \E j \in ProcessorIds, config \in Builds :
          NewProcessor(j, config)

SpecProcessor == ProcessorInit /\ [][ProcessorNext]_vars

(***************************************************************************)
(* Properties of AggregateEventProcessor, checked under SpecProcessor.     *)
(***************************************************************************)
\* C40: an event whose latency (end - start, zero when the end is before
\* the start) is at most the maximum latency the processor was built with
\* is processed without a panic, and its latency is in the histogram of its
\* name.
C40_LatencyWithinMaximumIsStored ==
    \A i \in ProcessorIds :
        (IsBuilt(i) /\ processor[i].last.some) =>
            LET event == processor[i].last.v
                latency == IF event.end > event.start
                           THEN event.end - event.start ELSE 0
            IN  latency <= processor[i].given
                => /\ ~processor[i].panicked
                   /\ event.name \in DOMAIN processor[i].latencies
                   /\ BagIn(as_micros(latency),
                            processor[i].latencies[event.name].counts)

(***************************************************************************)
(* The driver loop (spec 4.11): every virtual user consults the limiter    *)
(* chain with the shared status, marks operation_started, executes the     *)
(* scenario and marks operation_finished.  The status is one               *)
(* RealtimeReport (src/report/realtime.rs) whose clones share the atomics  *)
(* `counters`; the chain is a MaxOperationsLimiter                         *)
(* (src/executor/limit/max_operations.rs).  The steps of the users         *)
(* interleave at every atomic operation.                                   *)
(***************************************************************************)
MaxUsers == 2             \* virtual users
MaxDriverOperations == 2  \* the largest max_operations of the limiter

VirtualUsers == 1 .. MaxUsers

\* RealtimeStatus of a RealtimeReport: operations(), connections() and
\* total_operations() load the atomics.
RealtimeStatus ==
    [connections |-> value("connections"),
     operations |-> value("operations"),
     total_operations |-> value("total_operations")]

\* Step 1: the user consults the limiter chain with the shared status; on
\* Shutdown it leaves the loop, on None it goes on to step 2.
Consult(u) ==
    /\ driver.users[u].pc = "consult"
    /\ LET limit == apply(driver.chain, RealtimeStatus, now)
       IN  driver' = [driver EXCEPT !.users[u].pc =
                         IF limit = Shutdown THEN "exited"
                         ELSE "operation_started",
                         !.users[u].pending =
                             IF limit = Shutdown THEN <<>>
                             ELSE ReporterBody("operation_started")]
    /\ UNCHANGED <<now, measurerVars, timelineVars, libVars, scaleVars,
                   limiterVars, processVars, reportVars, sequenceVars,
                   runnerVars, processorVars>>

\* Steps 2 and 4: the user makes the next atomic operation of
\* operation_started or operation_finished.
Mark(u) ==
    /\ driver.users[u].pc \in {"operation_started", "operation_finished"}
    /\ LET user == driver.users[u]
           head == Head(user.pending)
           made == Atomic(head[2], counters[head[1]])
           rest == [c \in 1 .. Len(made.rollback) |->
                       CounterCall(head[1], made.rollback[c])]
                   \o Tail(user.pending)
       IN  /\ counters' = [counters EXCEPT ![head[1]] = made.value]
           /\ driver' = [driver EXCEPT
                 !.users[u].pending = rest,
                 !.users[u].pc =
                     IF rest # <<>> THEN user.pc
                     ELSE IF user.pc = "operation_started" THEN "execute"
                     ELSE "consult"]
    /\ UNCHANGED <<now, measurerVars, timelineVars, libVars, scaleVars,
                   limiterVars, processVars, origin, threads, sequenceVars,
                   runnerVars, processorVars>>

\* Step 3: scenario.execute(measurer) has run; whatever it returned, the
\* user goes on to step 4.
Execute(u) ==
    /\ driver.users[u].pc = "execute"
    /\ driver' = [driver EXCEPT
          !.users[u].pc = "operation_finished",
          !.users[u].pending = ReporterBody("operation_finished")]
    /\ UNCHANGED <<now, measurerVars, timelineVars, libVars, scaleVars,
                   limiterVars, processVars, reportVars, sequenceVars,
                   runnerVars, processorVars>>

\* RealtimeReport::default(), cloned to every user, and
\* MaxOperationsLimiter::new(max).
DriverInit ==
    /\ now = 0
    /\ MeasurerIdle
    /\ TimelineIdle
    /\ stores = <<>>
    /\ bucket = None
    /\ ScaleIdle
    /\ LimiterIdle
    /\ ProcessIdle
    /\ SequenceIdle
    /\ RunnerIdle
    /\ ProcessorIdle
    /\ origin = 0
    /\ threads = <<>>
    /\ counters = [c \in {"operations", "connections", "total_operations"}
                     |-> 0]
    /\ \E max \in 1 .. MaxDriverOperations :
          driver = [chain |-> MaxOperationsLimiter(max),
                    users |-> [u \in VirtualUsers |->
                                 [pc |-> "consult", pending |-> <<>>]]]

DriverNext ==
    \E u \in VirtualUsers :
        \/ Consult(u)
        \/ Mark(u)
        \/ Execute(u)

SpecDriver == DriverInit /\ [][DriverNext]_vars

(***************************************************************************)
(* Properties of the driver loop, checked under SpecDriver.                *)
(***************************************************************************)
\* C37 as stated: the total of started operations never exceeds the
\* max_operations of the limiter.
C37_TotalNeverExceedsMax ==
    value("total_operations") <= driver.chain.max_operations

\* C37, amended: the total of started operations exceeds the max_operations
\* of the limiter by less than the number of virtual users: every user can
\* pass the limiter once while the total is still below the maximum.
C37_TotalExceedsMaxByLessThanUsers ==
    value("total_operations") <= driver.chain.max_operations + MaxUsers - 1

\* All users have left the loop and the total is above the maximum by one
\* less than their number.
C37_Witness ==
    /\ \A u \in VirtualUsers : driver.users[u].pc = "exited"
    /\ value("total_operations") = driver.chain.max_operations + MaxUsers - 1
    /\ value("total_operations") > driver.chain.max_operations

=============================================================================
